---------------------------- MODULE Spec2Model ----------------------------
(***************************************************************************)
(* State-machine model of the WhatsApp webhook of thirdhouse-whatsapp-bot  *)
(* (src/unnamed/part_000): the four in-memory stores, the pure helpers     *)
(* that read and write them, and the webhook handler, one action per       *)
(* stretch of code the event loop runs without suspending.  The selector   *)
(* nextQuestionFallback is the one of src/api/webhook.js.                  *)
(*                                                                         *)
(* Conventions                                                             *)
(*  - A JavaScript Map is a function whose DOMAIN is the set of keys.      *)
(*  - Strings are TLA+ strings; a character is a string of length 1.       *)
(*  - null is the empty string and undefined a reserved string: the code   *)
(*    only ever tests such values for truthiness (!v, a || b).             *)
(*  - Date.now() is the variable now (milliseconds).  The code the event   *)
(*    loop runs between two suspension points reads one clock value.       *)
(*  - A const of the code is the parameter of a LAMBDA given to Let.       *)
(***************************************************************************)
EXTENDS Integers, Sequences, FiniteSets, TLC

(***************************************************************************)
(* Program constants                                                       *)
(***************************************************************************)
DEDUPE_TTL_MS == 5 * 60 * 1000
CONVO_TTL_MS == 30 * 60 * 1000
MAX_TURNS == 8
STATE_TTL_MS == 60 * 60 * 1000
FETCH_ABORT_MS == 6000
HANDLER_TIMEOUT_MS == 6500

(***************************************************************************)
(* Strings: the String.prototype methods and the regular expressions the   *)
(* code uses, computed character by character.                             *)
(***************************************************************************)
\* const v = e; the rest of the block being F
Let(v, F(_)) == F(v)

UpperAlpha == "ABCDEFGHIJKLMNOPQRSTUVWXYZ"
LowerAlpha == "abcdefghijklmnopqrstuvwxyz"
Digits == "0123456789"

CharAt(s, i) == SubSeq(s, i, i)

InChars(c, chars) == \E i \in 1..Len(chars) : CharAt(chars, i) = c

\* \s of a regular expression (the characters of it that the inputs use)
IsSpace(c) == c \in {" ", "\t", "\n", "\r"}

\* \d
IsDigit(c) == InChars(c, Digits)

\* \w
IsWordChar(c) == InChars(c, UpperAlpha) \/ InChars(c, LowerAlpha) \/ IsDigit(c) \/ c = "_"

\* . of a regular expression: any character but a line terminator
IsDot(c) == c \notin {"\n", "\r"}

LowerChar(c) ==
  IF InChars(c, UpperAlpha)
    THEN CharAt(LowerAlpha, CHOOSE i \in 1..26 : CharAt(UpperAlpha, i) = c)
    ELSE c

RECURSIVE toLowerCase(_)
toLowerCase(s) ==
  IF Len(s) = 0 THEN ""
  ELSE LowerChar(CharAt(s, 1)) \o toLowerCase(SubSeq(s, 2, Len(s)))

Min(S) == CHOOSE x \in S : \A y \in S : x <= y

Max(S) == CHOOSE x \in S : \A y \in S : y <= x

\* String.prototype.trim
trim(s) ==
  Let({i \in 1..Len(s) : ~IsSpace(CharAt(s, i))},
      LAMBDA keep : IF keep = {} THEN "" ELSE SubSeq(s, Min(keep), Max(keep)))

\* whether the literal p occurs in s at position i
LitAt(s, i, p) == i >= 1 /\ i + Len(p) - 1 <= Len(s) /\ SubSeq(s, i, i + Len(p) - 1) = p

\* String.prototype.includes, and the test of a regular expression that is a
\* single literal
includes(s, p) == \E i \in 1..Len(s) : LitAt(s, i, p)

\* /(a|b|...)/.test(s) for literal alternatives
TestAny(s, alts) == \E p \in alts : includes(s, p)

startsWith(s, p) == LitAt(s, 1, p)
endsWith(s, p) == LitAt(s, Len(s) - Len(p) + 1, p)

\* the index after the longest run of characters satisfying \s from i on
RECURSIVE SkipSpaces(_, _)
SkipSpaces(s, i) ==
  IF i <= Len(s) /\ IsSpace(CharAt(s, i)) THEN SkipSpaces(s, i + 1) ELSE i

\* the index after the longest run of digits from i on
RECURSIVE SkipDigits(_, _)
SkipDigits(s, i) ==
  IF i <= Len(s) /\ IsDigit(CharAt(s, i)) THEN SkipDigits(s, i + 1) ELSE i

\* the first alternative of the sequence alts (in order) that occurs in the
\* lower-cased text low at position i, or "" when none does
RECURSIVE FirstAltAt(_, _, _)
FirstAltAt(low, i, alts) ==
  IF alts = <<>> THEN ""
  ELSE IF LitAt(low, i, Head(alts)) THEN Head(alts)
  ELSE FirstAltAt(low, i, Tail(alts))

(***************************************************************************)
(* JavaScript values.  undefined is the reserved string "undefined" (what  *)
(* a template literal prints for it); no sender, identifier or text of the *)
(* model is that string.  null is "".                                      *)
(***************************************************************************)
Undefined == "undefined"
Null == ""

\* !v
Falsy(v) == v = Undefined \/ v = Null
Truthy(v) == ~Falsy(v)

\* a || b
Or(a, b) == IF Truthy(a) THEN a ELSE b

(***************************************************************************)
(* Maps                                                                    *)
(***************************************************************************)
\* new Map()
EmptyMap == [k \in {} |-> 0]

\* map.set(k, v)
MapSet(m, k, v) == [x \in DOMAIN m \cup {k} |-> IF x = k THEN v ELSE m[x]]

\* the map after map.delete(k) for every k not in keep
MapKeep(m, keep) == [x \in DOMAIN m \cap keep |-> m[x]]

(***************************************************************************)
(* The regular expressions of updateLeadState                              *)
(***************************************************************************)
TimelineUnits == <<"day", "days", "week", "weeks", "month", "months">>

\* /(in\s*\d+\s*(day|days|week|weeks|month|months))/i anchored at i: the index
\* of the last character matched, 0 when there is no match at i.  Every
\* quantifier is followed by a character it cannot itself match, so the
\* greedy choice is the only one.
TimelineMatchEnd(low, i) ==
  IF ~LitAt(low, i, "in") THEN 0
  ELSE Let(SkipSpaces(low, i + 2), LAMBDA j :
       Let(SkipDigits(low, j), LAMBDA k :
       Let(SkipSpaces(low, k), LAMBDA l :
       Let(FirstAltAt(low, l, TimelineUnits), LAMBDA u :
         IF k > j /\ u # "" THEN l + Len(u) - 1 ELSE 0))))

\* t.match(/(in\s*\d+\s*(day|...))/i): m[1], "" when the match is null
TimelineMatch(t) ==
  Let(toLowerCase(t), LAMBDA low :
  Let({i \in 1..Len(t) : TimelineMatchEnd(low, i) # 0}, LAMBDA starts :
    IF starts = {} THEN ""
    ELSE SubSeq(t, Min(starts), TimelineMatchEnd(low, Min(starts)))))

\* /(\$|usd|idr|rp\s?|million|k\b)/.test(lower)
BudgetCue(lower) ==
  \/ TestAny(lower, {"$", "usd", "idr", "rp", "million"})
  \/ \E i \in 1..Len(lower) :
       /\ CharAt(lower, i) = "k"
       /\ (i = Len(lower) \/ ~IsWordChar(CharAt(lower, i + 1)))

RangeUnits == <<"usd", "idr", "rp", "k", "million">>

\* /\d+\s*[-]\s*\d+\s*(usd|idr|rp|k|million)/ on the lower-cased text low,
\* anchored at i (the texts of the model are ASCII: the en dash of the class
\* is never met)
RangeMatchAt(low, i) ==
  /\ IsDigit(CharAt(low, i))
  /\ Let(SkipSpaces(low, SkipDigits(low, i)), LAMBDA a :
     Let(SkipSpaces(low, a + 1), LAMBDA b :
     Let(SkipDigits(low, b), LAMBDA c :
       /\ LitAt(low, a, "-")
       /\ c > b
       /\ FirstAltAt(low, SkipSpaces(low, c), RangeUnits) # "")))

\* t.match(/\d+\s*[-]\s*\d+\s*(usd|idr|rp|k|million)/i) is not null
RangeMatch(t) ==
  Let(toLowerCase(t), LAMBDA low : \E i \in 1..Len(low) : RangeMatchAt(low, i))

\* the largest x of the range lo..hi with F(x) # 0 gives F(x); 0 when there
\* is none: a greedy \s* that ends at hi gives characters back one by one
Greedy(lo, hi, F(_)) ==
  Let({x \in lo..hi : F(x) # 0}, LAMBDA ok : IF ok = {} THEN 0 ELSE F(Max(ok)))

\* (.+) from x on: x when the group can start there, else 0
BrandGroup(low, x) == IF x <= Len(low) /\ IsDot(CharAt(low, x)) THEN x ELSE 0

\* \s*(.+) from p on: where group (.+) starts, 0 when it cannot match
BrandTail3(low, p) == Greedy(p, SkipSpaces(low, p), LAMBDA x : BrandGroup(low, x))

\* e1 if it is not 0, else e2: an optional group is tried before it is skipped
OrElse(e1, e2) == IF e1 # 0 THEN e1 ELSE e2

\* (is|:)?\s*(.+) from p on
BrandTail2(low, p) ==
  OrElse(IF LitAt(low, p, "is") THEN BrandTail3(low, p + 2)
         ELSE IF LitAt(low, p, ":") THEN BrandTail3(low, p + 1)
         ELSE 0,
         BrandTail3(low, p))

\* \s*(is|:)?\s*(.+) from p on
BrandTail1(low, p) == Greedy(p, SkipSpaces(low, p), LAMBDA x : BrandTail2(low, x))

\* (name)?\s*(is|:)?\s*(.+) from p on
BrandTail0(low, p) ==
  OrElse(IF LitAt(low, p, "name") THEN BrandTail1(low, p + 4) ELSE 0, BrandTail1(low, p))

\* /(brand|business)\s*(name)?\s*(is|:)?\s*(.+)/i anchored at i: where group
\* 4 starts, 0 when there is no match at i
BrandMatchAt(low, i) ==
  Let(FirstAltAt(low, i, <<"brand", "business">>), LAMBDA a :
    IF a = "" THEN 0
    ELSE Greedy(i + Len(a), SkipSpaces(low, i + Len(a)), LAMBDA x : BrandTail0(low, x)))

\* the index of the last character of the run of . characters from g on
RECURSIVE DotRunEnd(_, _)
DotRunEnd(s, g) ==
  IF g + 1 <= Len(s) /\ IsDot(CharAt(s, g + 1)) THEN DotRunEnd(s, g + 1) ELSE g

\* t.match(/(brand|business)\s*(name)?\s*(is|:)?\s*(.+)/i): bn[4], "" when
\* the match is null
BrandMatch(t) ==
  Let(toLowerCase(t), LAMBDA low :
  Let({i \in 1..Len(t) : BrandMatchAt(low, i) # 0}, LAMBDA starts :
    IF starts = {} THEN ""
    ELSE Let(BrandMatchAt(low, Min(starts)), LAMBDA g : SubSeq(t, g, DotRunEnd(t, g)))))

\* /\s/.test(t)
HasSpace(t) == \E i \in 1..Len(t) : IsSpace(CharAt(t, i))

\* /[?.!]/.test(t)
HasPunct(t) == \E i \in 1..Len(t) : CharAt(t, i) \in {"?", ".", "!"}

(***************************************************************************)
(* Lead state store                                                        *)
(***************************************************************************)
\* the fresh record of getLeadState
FreshLead(ts) ==
  [service |-> Null, timeline |-> Null, budget |-> Null, brand_name |-> Null,
   style |-> Null, contact_name |-> Null, contact_channel |-> Null,
   references |-> Null, ts |-> ts]

\* getLeadState without its prune loop
PruneLeadNever(store, t) == store

\* the loop of getLeadState that deletes the expired records
PruneLead(store, t) ==
  MapKeep(store, {k \in DOMAIN store : ~(store[k].ts = 0 \/ t - store[k].ts > STATE_TTL_MS)})

\* leadStateStore after getLeadState(from) at time t; the record returned is
\* the one at key from
getLeadState(store, from, t) ==
  Let(PruneLead(store, t), LAMBDA pruned :
    IF from \notin DOMAIN pruned
      THEN MapSet(pruned, from, FreshLead(t))
      ELSE [pruned EXCEPT ![from].ts = t])

\* the service rule: the first category whose pattern matches
ServiceOf(lower) ==
  IF TestAny(lower, {"logo", "logotype"}) THEN "logo"
  ELSE IF TestAny(lower, {"branding", "brand identity", "identity"}) THEN "branding"
  ELSE IF TestAny(lower, {"website", "web site", "landing page"}) THEN "website"
  ELSE IF TestAny(lower, {"social media", "instagram", "content", "posts"}) THEN "social media"
  ELSE IF TestAny(lower, {"menu design", "menu"}) THEN "menu"
  ELSE IF TestAny(lower, {"pitch deck", "deck", "presentation"}) THEN "pitch deck"
  ELSE Null

\* the timeline rule
TimelineOf(t, lower) ==
  Let(TimelineMatch(t), LAMBDA m :
  IF m # "" THEN m
  ELSE IF TestAny(lower, {"asap", "urgent", "today", "tomorrow", "this week", "next week"}) THEN t
  ELSE Null)

\* the budget rule
BudgetOf(t, lower) == IF BudgetCue(lower) \/ RangeMatch(t) THEN t ELSE Null

\* the contact rule: two consecutive ifs, the second is not an else
ContactChannelOf(lower) ==
  IF includes(lower, "email") THEN "email"
  ELSE IF lower = "here" \/ includes(lower, "whatsapp") THEN "whatsapp"
  ELSE Null

\* the brand-name rule: the explicit pattern, then the short-reply heuristic
\* (!/\s/.test(t) === false holds exactly when t contains whitespace)
BrandNameOf(t, lower) ==
  Let(trim(BrandMatch(t)), LAMBDA explicit :
    IF Truthy(explicit) THEN explicit
    ELSE IF /\ Len(t) > 2
            /\ Len(t) <= 40
            /\ (~HasSpace(t)) = FALSE
            /\ ~HasPunct(t)
            /\ ~TestAny(lower, {"i need", "please", "can you", "want", "budget",
                                "style", "modern", "minimal"})
      THEN t
      ELSE Null)

\* the style rule
StyleOf(t, lower) ==
  IF TestAny(lower, {"modern", "minimal", "bold", "luxury", "traditional", "clean",
                     "playful", "vintage", "arabic", "lebanese"})
    THEN t ELSE Null

\* the references rule
ReferencesOf(t, lower) ==
  IF TestAny(lower, {"http", "www.", "instagram.com", "behance.net", "dribbble.com",
                     "pinterest.com"})
    THEN t ELSE Null

\* what each rule of updateLeadState assigns to its slot for the utterance
\* text when it runs (Null: it assigns nothing)
SlotRules(text) ==
  Let(trim(Or(text, "")), LAMBDA t :
  Let(toLowerCase(t), LAMBDA lower :
    [service |-> ServiceOf(lower),
     timeline |-> TimelineOf(t, lower),
     budget |-> BudgetOf(t, lower),
     contact_channel |-> ContactChannelOf(lower),
     brand_name |-> BrandNameOf(t, lower),
     style |-> StyleOf(t, lower),
     references |-> ReferencesOf(t, lower)]))

\* the utterances of the model
TextLogo == "I need a logo"
TextOffer == "Do you offer website services?"
TextBrand == "my brand is Acme"
TextCollab == "Open to a Collab?"
TextPartner == "Partner services"
Utterances == {TextLogo, TextOffer, TextBrand, TextCollab, TextPartner}

\* SlotRules over the utterances of the model, computed once
SlotRulesOfUtterance == [text \in Utterances |-> SlotRules(text)]

\* updateLeadState with a rule that takes the name it finds as contact name
\* too
ApplyRulesNamingContact(s, c, t0) ==
  [service |-> IF Falsy(s.service) THEN c.service ELSE s.service,
   timeline |-> IF Falsy(s.timeline) THEN c.timeline ELSE s.timeline,
   budget |-> IF Falsy(s.budget) THEN c.budget ELSE s.budget,
   brand_name |-> IF Falsy(s.brand_name) THEN c.brand_name ELSE s.brand_name,
   style |-> IF Falsy(s.style) THEN c.style ELSE s.style,
   contact_name |-> IF Falsy(s.contact_name) THEN c.brand_name ELSE s.contact_name,
   contact_channel |-> IF Falsy(s.contact_channel) THEN c.contact_channel
                       ELSE s.contact_channel,
   references |-> IF Falsy(s.references) THEN c.references ELSE s.references,
   ts |-> t0]

\* updateLeadState with the service rule outside its if (!s.service)
ApplyRulesOverService(s, c, t0) ==
  [service |-> IF Truthy(c.service) THEN c.service ELSE s.service,
   timeline |-> IF Falsy(s.timeline) THEN c.timeline ELSE s.timeline,
   budget |-> IF Falsy(s.budget) THEN c.budget ELSE s.budget,
   brand_name |-> IF Falsy(s.brand_name) THEN c.brand_name ELSE s.brand_name,
   style |-> IF Falsy(s.style) THEN c.style ELSE s.style,
   contact_name |-> s.contact_name,
   contact_channel |-> IF Falsy(s.contact_channel) THEN c.contact_channel
                       ELSE s.contact_channel,
   references |-> IF Falsy(s.references) THEN c.references ELSE s.references,
   ts |-> t0]

\* the record s after the rules of updateLeadState, c being what the rules
\* assign: a rule runs only when its slot is falsy; s.ts = Date.now()
ApplyRules(s, c, t0) ==
  [service |-> IF Falsy(s.service) THEN c.service ELSE s.service,
   timeline |-> IF Falsy(s.timeline) THEN c.timeline ELSE s.timeline,
   budget |-> IF Falsy(s.budget) THEN c.budget ELSE s.budget,
   brand_name |-> IF Falsy(s.brand_name) THEN c.brand_name ELSE s.brand_name,
   style |-> IF Falsy(s.style) THEN c.style ELSE s.style,
   contact_name |-> s.contact_name,
   contact_channel |-> IF Falsy(s.contact_channel) THEN c.contact_channel
                       ELSE s.contact_channel,
   references |-> IF Falsy(s.references) THEN c.references ELSE s.references,
   ts |-> t0]

\* the body of updateLeadState after its first line, on the record s
ExtractSlots(s, text, t0) ==
  ApplyRules(s, IF text \in Utterances THEN SlotRulesOfUtterance[text] ELSE SlotRules(text), t0)

\* leadStateStore after updateLeadState(from, text) at time t; the record
\* returned is the one at key from
updateLeadState(store, from, text, t) ==
  Let(getLeadState(store, from, t), LAMBDA got :
    [got EXCEPT ![from] = ExtractSlots(got[from], text, t)])

\* getMissingFields with its ifs in the order of the fields of the record
getMissingFieldsInRecordOrder(state) ==
  (IF Falsy(state.service) THEN <<"service">> ELSE <<>>)
  \o (IF Falsy(state.timeline) THEN <<"timeline">> ELSE <<>>)
  \o (IF Falsy(state.budget) THEN <<"budget">> ELSE <<>>)
  \o (IF Falsy(state.brand_name) THEN <<"brand_name">> ELSE <<>>)
  \o (IF Falsy(state.style) THEN <<"style">> ELSE <<>>)
  \o (IF Falsy(state.contact_name) THEN <<"contact_name">> ELSE <<>>)
  \o (IF Falsy(state.contact_channel) THEN <<"contact_channel">> ELSE <<>>)

\* getMissingFields(state)
getMissingFields(state) ==
  (IF Falsy(state.service) THEN <<"service">> ELSE <<>>)
  \o (IF Falsy(state.timeline) THEN <<"timeline">> ELSE <<>>)
  \o (IF Falsy(state.brand_name) THEN <<"brand_name">> ELSE <<>>)
  \o (IF Falsy(state.style) THEN <<"style">> ELSE <<>>)
  \o (IF Falsy(state.budget) THEN <<"budget">> ELSE <<>>)
  \o (IF Falsy(state.contact_name) THEN <<"contact_name">> ELSE <<>>)
  \o (IF Falsy(state.contact_channel) THEN <<"contact_channel">> ELSE <<>>)

(***************************************************************************)
(* Conversation store.  A turn carries, beside role and content, the       *)
(* history field n: the number of the pushTurn call of its sender that     *)
(* appended it.  A record carries, beside messages and ts, the history     *)
(* field pushed: the number of turns appended to it since it was created.  *)
(* No operation reads n or pushed.                                         *)
(***************************************************************************)
\* the loop of getConversation with the TTL of the dedup stores
PruneConvoShortTTL(store, t) ==
  MapKeep(store, {k \in DOMAIN store : ~(store[k].ts = 0 \/ t - store[k].ts > DEDUPE_TTL_MS)})

\* the loop of getConversation that deletes the expired records
PruneConvo(store, t) ==
  MapKeep(store, {k \in DOMAIN store : ~(store[k].ts = 0 \/ t - store[k].ts > CONVO_TTL_MS)})

\* conversationStore after getConversation(from) at time t; the record
\* returned is the one at key from
getConversation(store, from, t) ==
  Let(PruneConvo(store, t), LAMBDA pruned :
    IF from \notin DOMAIN pruned
      THEN MapSet(pruned, from, [messages |-> <<>>, ts |-> t, pushed |-> 0])
      ELSE [pruned EXCEPT ![from].ts = t])

\* the truncation with slice(0, MAX_TURNS): the oldest turns stay
KeepFirstTurns(messages) ==
  IF Len(messages) > MAX_TURNS THEN SubSeq(messages, 1, MAX_TURNS) ELSE messages

\* the truncation with slice(messages.length - MAX_TURNS - 1): one turn too many
KeepOneMoreTurn(messages) ==
  IF Len(messages) > MAX_TURNS + 1
    THEN SubSeq(messages, Len(messages) - MAX_TURNS, Len(messages))
    ELSE messages

\* messages.slice(messages.length - MAX_TURNS) once the length exceeds MAX_TURNS
KeepLastTurns(messages) ==
  IF Len(messages) > MAX_TURNS
    THEN SubSeq(messages, Len(messages) - MAX_TURNS + 1, Len(messages))
    ELSE messages

\* conversationStore after pushTurn(from, role, content) at time t, n being
\* the number of this call among the appends of from
pushTurn(store, from, role, content, n, t) ==
  IF Falsy(from) \/ Falsy(content) THEN store
  ELSE Let(getConversation(store, from, t), LAMBDA got :
         [got EXCEPT ![from] =
            [messages |-> KeepLastTurns(Append(got[from].messages,
                            [role |-> role, content |-> content, n |-> n])),
             ts |-> t,
             pushed |-> got[from].pushed + 1]])

(***************************************************************************)
(* Dedup stores                                                            *)
(***************************************************************************)
\* the prune loop with >= for >
PruneDedupEarly(m, t) == MapKeep(m, {k \in DOMAIN m : ~(t - m[k] >= DEDUPE_TTL_MS)})

\* the loop that deletes the expired entries of a dedup map
PruneDedup(m, t) == MapKeep(m, {k \in DOMAIN m : ~(t - m[k] > DEDUPE_TTL_MS)})

\* isDuplicateMessage without its has(id) test
isDuplicateMessageBlind(ids, id, t) == FALSE

\* what isDuplicateMessage(id) returns at time t
isDuplicateMessage(ids, id, t) ==
  IF Falsy(id) THEN FALSE ELSE id \in DOMAIN PruneDedup(ids, t)

\* isDuplicateMessage with set(id, now) before the has(id) test: a hit is
\* stamped again
IdsAfterRestamped(ids, id, t) ==
  IF Falsy(id) THEN ids ELSE MapSet(PruneDedup(ids, t), id, t)

\* processedMessageIds after isDuplicateMessage(id) at time t
IdsAfter(ids, id, t) ==
  IF Falsy(id) THEN ids
  ELSE Let(PruneDedup(ids, t), LAMBDA pruned :
         IF id \in DOMAIN pruned THEN pruned ELSE MapSet(pruned, id, t))

\* isDuplicateKey with has(key) tested before the prune loop
isDuplicateKeyUnpruned(keys, key, t) ==
  IF Falsy(key) THEN FALSE ELSE key \in DOMAIN keys

\* what isDuplicateKey(key) returns at time t
isDuplicateKey(keys, key, t) ==
  IF Falsy(key) THEN FALSE ELSE key \in DOMAIN PruneDedup(keys, t)

\* processedMessageKeys after isDuplicateKey(key) at time t
KeysAfter(keys, key, t) ==
  IF Falsy(key) THEN keys
  ELSE Let(PruneDedup(keys, t), LAMBDA pruned :
         IF key \in DOMAIN pruned THEN pruned ELSE MapSet(pruned, key, t))

(***************************************************************************)
(* Reply texts.  The typographic apostrophe of the source strings is       *)
(* written ' here.                                                         *)
(***************************************************************************)
QuickOffer ==
  "We do branding, logos, websites, social media, menus, and pitch decks. What are you looking to make?"
QuickCollab ==
  "Yes, we do collaborations depending on the fit. What kind of collaboration are you proposing?"
GenericQuestion == "Thanks. What's the best name to put this under?"
DefaultReply == "Hi! What day and time would you like?"

\* the ifs of the catch block without the return that ends it: the function
\* then returns undefined
QuestionForKnown(m) ==
  IF m = "brand_name" THEN "Great. What's the brand or business name?"
  ELSE IF m = "style" THEN "Nice. What style are you aiming for, and any references you like?"
  ELSE IF m = "budget" THEN "Do you have a budget range in mind for this?"
  ELSE IF m = "timeline" THEN "When do you need this by?"
  ELSE IF m = "service" THEN "What do you need designed (logo, branding, website, social, menu, deck)?"
  ELSE IF m = "contact_name" THEN "What's the best contact name?"
  ELSE IF m = "contact_channel" THEN "Should we continue here on WhatsApp or by email?"
  ELSE Undefined

\* the ifs of the catch block of callArliAI on m
QuestionFor(m) ==
  IF m = "brand_name" THEN "Great. What's the brand or business name?"
  ELSE IF m = "style" THEN "Nice. What style are you aiming for, and any references you like?"
  ELSE IF m = "budget" THEN "Do you have a budget range in mind for this?"
  ELSE IF m = "timeline" THEN "When do you need this by?"
  ELSE IF m = "service" THEN "What do you need designed (logo, branding, website, social, menu, deck)?"
  ELSE IF m = "contact_name" THEN "What's the best contact name?"
  ELSE IF m = "contact_channel" THEN "Should we continue here on WhatsApp or by email?"
  ELSE GenericQuestion

\* a value that is an array of the elements items
ArrayOf(items) == [array |-> TRUE, items |-> items]

\* a value that is not an array
NotAnArray == [array |-> FALSE, items |-> <<>>]

\* Array.isArray(missing) ? missing[0] : null; missing[0] of an empty array
\* is undefined
FirstMissing(missing) ==
  IF missing.array
    THEN IF Len(missing.items) > 0 THEN missing.items[1] ELSE Undefined
    ELSE Null

\* the catch block of callArliAI on the value missing
CatchQuestion(missing) == QuestionFor(FirstMissing(missing))

\* the catch block of callArliAI on the array missing of the handler
FallbackQuestion(missing) == CatchQuestion(ArrayOf(missing))

\* convo.map(m => (m.content || "").toLowerCase()).join(" \n")
RECURSIVE JoinLower(_)
JoinLower(convo) ==
  IF Len(convo) = 0 THEN ""
  ELSE IF Len(convo) = 1 THEN toLowerCase(Or(convo[1].content, ""))
  ELSE toLowerCase(Or(convo[1].content, "")) \o " \n" \o JoinLower(Tail(convo))

\* [...convo].reverse().find(m => m.role === "user")?.content?.toLowerCase() || ""
LastUser(convo) ==
  Let({i \in 1..Len(convo) : convo[i].role = "user"}, LAMBDA users :
    IF users = {} \/ Falsy(convo[Max(users)].content) THEN ""
    ELSE toLowerCase(convo[Max(users)].content))

\* /(tomorrow|today|week|weeks|month|months|deadline|by\s)/.test(allText)
TimelineCue(allText) ==
  \/ TestAny(allText, {"tomorrow", "today", "week", "weeks", "month", "months", "deadline"})
  \/ \E i \in 1..Len(allText) : LitAt(allText, i, "by") /\ IsSpace(CharAt(allText, i + 2))

\* /(budget|idr|usd|rp\s?|million|k\b)/.test(allText)
BudgetWord(allText) ==
  \/ TestAny(allText, {"budget", "idr", "usd", "rp", "million"})
  \/ \E i \in 1..Len(allText) :
       /\ CharAt(allText, i) = "k"
       /\ (i = Len(allText) \/ ~IsWordChar(CharAt(allText, i + 1)))

\* the five flags of nextQuestionFallback and the length of lastUser
ConvoFlags(convo, allText) ==
  [hasService |-> TestAny(allText, {"logo", "branding", "brand", "website", "web", "social",
                                    "pitch deck", "menu"}),
   hasTimeline |-> TimelineCue(allText),
   hasBrandName |-> TestAny(allText, {"brand is", "business name", "we are", "called",
                                      "name is"}),
   hasStyle |-> TestAny(allText, {"modern", "minimal", "bold", "luxury", "traditional",
                                  "clean", "playful", "ref", "reference", "style"}),
   hasBudget |-> BudgetWord(allText),
   lastUser |-> Len(LastUser(convo))]

\* the ifs of nextQuestionFallback on the flags f
QuestionOfFlags(f) ==
  IF f.hasService /\ (f.hasBrandName \/ f.lastUser > 2) /\ f.hasStyle /\ ~f.hasBudget
    THEN "Got it. Do you have a budget range in mind for this logo?"
  ELSE IF f.hasService /\ f.hasTimeline /\ ~f.hasBrandName
    THEN "Great. What's the brand or business name?"
  ELSE IF f.hasService /\ f.hasBrandName /\ ~f.hasStyle
    THEN "Nice. What style do you want (modern, minimal, bold, etc.) or any references?"
  ELSE IF f.hasService /\ f.hasBrandName /\ f.hasStyle /\ f.hasBudget
    THEN "Perfect. What's the best contact name, and should we continue here or by email?"
  ELSE "Thanks for the details. What's your brand or business name and what style do you like?"

\* what nextQuestionFallback(from) returns, convo being
\* getConversation(from).messages
nextQuestionFallback(convo) == QuestionOfFlags(ConvoFlags(convo, JoinLower(convo)))

\* what callArliAI returns once r.json() resolved with data, a record with
\* the fields content (choices[0].message.content) and reply
CompletionText(data) ==
  Or(IF data.content = Undefined THEN Undefined ELSE trim(data.content),
     Or(data.reply, GenericQuestion))

\* the operand of the return of callArliAI that gave its value: the content
\* of the completion ("generated"), data.reply ("reply") or the literal
\* ("generic")
CompletionPath(data) ==
  IF data.content # Undefined /\ Truthy(trim(data.content)) THEN "generated"
  ELSE IF Truthy(data.reply) THEN "reply"
  ELSE "generic"

\* the elements of the set of numbers S in increasing order
SortedSeq(S) ==
  [i \in 1..Cardinality(S) |-> CHOOSE x \in S : Cardinality({y \in S : y < x}) = i - 1]

\* the indexes of the double quotes of s, in increasing order
QuoteIndexes(s) == SortedSeq({i \in 1..Len(s) : CharAt(s, i) = "\""})

\* whether s, whose quotes are at q, is an object of JSON whose members are
\* strings: {"k":"v","k":"v"} or {}.  The strings given to JSON.parse in the
\* model hold no escape and no white space inside the braces, and no value
\* that is not a string: any other text between braces is not JSON.
ObjectText(s, q) ==
  /\ startsWith(s, "{") /\ endsWith(s, "}")
  /\ Len(q) % 4 = 0
  /\ IF Len(q) = 0 THEN s = "{}"
     ELSE /\ q[1] = 2 /\ q[Len(q)] = Len(s) - 1
          /\ \A i \in 0..(Len(q) \div 4) - 1 :
               q[4 * i + 3] = q[4 * i + 2] + 2 /\ CharAt(s, q[4 * i + 2] + 1) = ":"
          /\ \A i \in 1..(Len(q) \div 4) - 1 :
               q[4 * i + 1] = q[4 * i] + 2 /\ CharAt(s, q[4 * i] + 1) = ","

\* the members <<key, value>> of the object text s, whose quotes are at q
ObjectMembers(s, q) ==
  [i \in 1..(Len(q) \div 4) |->
     <<SubSeq(s, q[4 * i - 3] + 1, q[4 * i - 2] - 1),
       SubSeq(s, q[4 * i - 1] + 1, q[4 * i] - 1)>>]

\* whether s, whose quotes are at q, is an array of JSON whose elements are
\* strings: ["a","b"] or []
ArrayText(s, q) ==
  /\ startsWith(s, "[") /\ endsWith(s, "]")
  /\ Len(q) % 2 = 0
  /\ IF Len(q) = 0 THEN s = "[]"
     ELSE /\ q[1] = 2 /\ q[Len(q)] = Len(s) - 1
          /\ \A i \in 1..(Len(q) \div 2) - 1 :
               q[2 * i + 1] = q[2 * i] + 2 /\ CharAt(s, q[2 * i] + 1) = ","

\* JSON.parse(s) for a string s that starts with { or [: whether it returns
\* (ok; it throws otherwise) and the members of the object it returns, an
\* array having none
JSONParseAt(s, q) ==
  IF ObjectText(s, q) THEN [ok |-> TRUE, members |-> ObjectMembers(s, q)]
  ELSE [ok |-> ArrayText(s, q), members |-> <<>>]

JSONParse(s) == JSONParseAt(s, QuoteIndexes(s))

\* parsed[key] for the members of a parsed object: the last member of that
\* key, undefined when there is none
Field(members, key) ==
  Let({i \in 1..Len(members) : members[i][1] = key}, LAMBDA at :
    IF at = {} THEN Undefined ELSE members[Max(at)][2])

\* parsed.message || parsed.reply || parsed.text || the default
ParsedReplyMessageFirst(members) ==
  Or(Field(members, "message"), Or(Field(members, "reply"),
     Or(Field(members, "text"), DefaultReply)))

\* parsed.reply || parsed.message || parsed.text || the default
ParsedReply(members) ==
  Or(Field(members, "reply"), Or(Field(members, "message"),
     Or(Field(members, "text"), DefaultReply)))

\* extractReplyText(aiResult) for an aiResult that is not an object: a
\* string, or null or undefined
extractReplyText(aiResult) ==
  Let(trim(Or(aiResult, "")), LAMBDA s :
    IF s = "" THEN DefaultReply
    ELSE IF \/ (startsWith(s, "{") /\ endsWith(s, "}"))
            \/ (startsWith(s, "[") /\ endsWith(s, "]"))
      THEN Let(JSONParse(s), LAMBDA parsed :
             IF parsed.ok THEN ParsedReply(parsed.members) ELSE s)
    ELSE s)

\* the first branch of extractReplyText, for an aiResult that is an object
\* with the fields reply and content (choices[0].message.content)
extractReplyTextOfObject(o) ==
  Or(o.reply, Or(IF o.content = Undefined THEN Undefined ELSE trim(o.content), DefaultReply))

\* extractReplyText(aiResult) for a value given as a record: object tells
\* whether typeof aiResult is "object" and aiResult is not null
extractReplyTextOf(aiResult) ==
  IF aiResult.object THEN extractReplyTextOfObject(aiResult)
  ELSE extractReplyText(aiResult.string)

\* the bodies r.json() resolves with: a completion, and a body without
\* choices and without reply (the error body of a response that is not OK,
\* or a completion without content)
Completions ==
  { [content |-> " Sure, what is the brand called? ", reply |-> Undefined],
    [content |-> Undefined, reply |-> Undefined] }

\* the slot names getMissingFields lists
SlotNames ==
  {"service", "timeline", "brand_name", "style", "budget", "contact_name", "contact_channel"}

\* the values callArliAI resolves with in the model
AiResults ==
  {CompletionText(d) : d \in Completions}
    \cup {FallbackQuestion(<<m>>) : m \in SlotNames} \cup {FallbackQuestion(<<>>)}

\* extractReplyText over the results of the model, computed once
ReplyTextOfResult == [a \in AiResults |-> extractReplyText(a)]

ReplyText(aiResult) ==
  IF aiResult \in AiResults THEN ReplyTextOfResult[aiResult] ELSE extractReplyText(aiResult)

(***************************************************************************)
(* Bounds of the model                                                     *)
(***************************************************************************)
\* handler invocations that may be suspended at the same time
MaxInFlight == 2
\* POST deliveries in one behaviour
MaxDeliveries == 3
\* clock advances in one behaviour
MaxTicks == 2

(***************************************************************************)
(* State                                                                   *)
(***************************************************************************)
VARIABLES
  now,                   \* Date.now()
  processedMessageIds,   \* Map id -> timestamp
  processedMessageKeys,  \* Map key -> timestamp
  conversationStore,     \* Map from -> [messages, ts] (and pushed)
  leadStateStore,        \* Map from -> [service, ..., ts]
  req,                   \* the suspended handler invocations, by slot
  last,                  \* history: the invocation that returned most recently
  admittedIds,           \* history: id -> when processedMessageIds.set(id, now) last ran
  admittedKeys,          \* history: key -> when processedMessageKeys.set(key, now) last ran
  pushCount,             \* history: appends made by pushTurn, per sender
  delivered,             \* history: POST deliveries so far
  ticks,                 \* history: clock advances so far
  call                   \* a call of a pure function: its name, argument and result

vars == <<now, processedMessageIds, processedMessageKeys, conversationStore,
          leadStateStore, req, last, admittedIds, admittedKeys, pushCount, delivered, ticks,
          call>>

history == <<admittedIds, admittedKeys, pushCount>>

stores == <<processedMessageIds, processedMessageKeys, conversationStore, leadStateStore>>

Slots == 1..MaxInFlight

Senders == {"A", "B"}

\* the message of a payload that carries none (value.messages[0] is undefined)
NoMsg == [id |-> Undefined, from |-> Undefined, timestamp |-> Undefined, text |-> Undefined]

\* a handler invocation: where it is suspended (pc), its locals msg and
\* missing, and its history: the path it took, the reply text it chose, the
\* responses it sent (acks), its calls of callArliAI (gen) and of
\* sendWhatsAppText (sends), and how the send ended (sent)
IdleReq ==
  [pc |-> "idle", msg |-> NoMsg, path |-> "none", missing |-> <<>>, replyText |-> "",
   acks |-> 0, gen |-> 0, sends |-> 0, sent |-> "none"]

\* the composite key of the handler: `${msg.from}:${msgTs}:${msgText}`
CompositeKey(msg) == msg.from \o ":" \o msg.timestamp \o ":" \o Or(msg.text, "")

\* no pure function is being called
NoCall == [fn |-> "none", arg |-> Undefined, done |-> FALSE, result |-> Undefined]

\* the state after the module is loaded, but for the call in progress
Loaded ==
  /\ now = 1
  /\ processedMessageIds = EmptyMap
  /\ processedMessageKeys = EmptyMap
  /\ conversationStore = EmptyMap
  /\ leadStateStore = EmptyMap
  /\ req = [r \in Slots |-> IdleReq]
  /\ last = IdleReq
  /\ admittedIds = EmptyMap
  /\ admittedKeys = EmptyMap
  /\ pushCount = [f \in Senders |-> 0]
  /\ delivered = 0
  /\ ticks = 0

Init == Loaded /\ call = NoCall

(***************************************************************************)
(* The handler, POST branch.  Receive runs from the entry of the handler   *)
(* to its first await or return; the other actions resume it at an await.  *)
(***************************************************************************)
InFlight(r) == req[r].pc # "idle"

\* return without res.status(200).send("OK"): no response is sent
ReturnWithoutAck(r, q, path, sent) ==
  /\ req' = [req EXCEPT ![r] = IdleReq]
  /\ last' = [q EXCEPT !.pc = "done", !.path = path, !.sent = sent]

\* res.status(200).send("OK") and return: invocation q of slot r is over
Return(r, q, path, sent) ==
  /\ req' = [req EXCEPT ![r] = IdleReq]
  /\ last' = [q EXCEPT !.pc = "done", !.path = path, !.acks = q.acks + 1, !.sent = sent]

\* whether pushTurn(from, role, content) appends
Appends(from, content) == Truthy(from) /\ Truthy(content)

\* pushCount after a pushTurn(from, role, content)
Counted(cnt, from, content) ==
  IF Appends(from, content) /\ from \in DOMAIN cnt
    THEN [cnt EXCEPT ![from] = cnt[from] + 1] ELSE cnt

\* the number of the next append of from
NextTurn(cnt, from) == IF from \in DOMAIN cnt THEN cnt[from] + 1 ELSE 0

\* pushTurn(from, "assistant", text); await withTimeout(sendWhatsAppText(from, text), 6500)
\* up to the await
StartSend(r, q, convo, cnt, text, path) ==
  /\ conversationStore' = pushTurn(convo, q.msg.from, "assistant", text, NextTurn(cnt, q.msg.from), now)
  /\ pushCount' = Counted(cnt, q.msg.from, text)
  /\ req' = [req EXCEPT ![r] = [q EXCEPT !.pc = "send", !.path = path, !.replyText = text,
                                         !.sends = q.sends + 1, !.sent = "pending"]]
  /\ UNCHANGED last

\* the quick rules with the second if before the first
QuickRuleCollabFirst(text) ==
  Let(toLowerCase(text), LAMBDA lower :
    IF includes(lower, "collaboration") \/ includes(lower, "collab")
       \/ includes(lower, "partner") THEN QuickCollab
    ELSE IF includes(lower, "what do you offer") \/ includes(lower, "services") THEN QuickOffer
    ELSE Null)

\* the quick rules of the handler: the canned reply, Null when none applies
QuickRule(text) ==
  Let(toLowerCase(text), LAMBDA lower :
    IF includes(lower, "what do you offer") \/ includes(lower, "services") THEN QuickOffer
    ELSE IF includes(lower, "collaboration") \/ includes(lower, "collab")
            \/ includes(lower, "partner") THEN QuickCollab
    ELSE Null)

\* QuickRule over the utterances of the model, computed once
QuickRuleOfUtterance == [text \in Utterances |-> QuickRule(text)]

QuickReply(text) == IF text \in Utterances THEN QuickRuleOfUtterance[text] ELSE QuickRule(text)

\* the handler from its quick rules to its first await: q carries missing,
\* convo and cnt are the conversation store and the append counts after the
\* user turn, quick is the canned reply
Answer(r, q, convo, cnt, quick) ==
  IF quick # Null
    THEN StartSend(r, q, convo, cnt, quick, "quick")
    ELSE \* callArliAI up to the await of fetch: the payload reads getConversation(from)
         /\ conversationStore' = getConversation(convo, q.msg.from, now)
         /\ pushCount' = cnt
         /\ req' = [req EXCEPT ![r] = [q EXCEPT !.pc = "gen_fetch", !.path = "generating",
                                                !.gen = q.gen + 1]]
         /\ UNCHANGED last

\* the try block of the handler after pushTurn(from, "user", text), lead being
\* the lead state store after updateLeadState(from, text)
Qualify(r, q, lead) ==
  /\ leadStateStore' = lead
  /\ Answer(r, [q EXCEPT !.missing = getMissingFields(lead[q.msg.from])],
            pushTurn(conversationStore, q.msg.from, "user", q.msg.text,
                     NextTurn(pushCount, q.msg.from), now),
            Counted(pushCount, q.msg.from, q.msg.text),
            QuickReply(q.msg.text))

\* the try block of the handler for an admitted message, up to its first
\* await or return
Process(r, q) ==
  IF Falsy(q.msg.text)
    THEN /\ Return(r, q, "no_text", "none")
         /\ UNCHANGED <<conversationStore, leadStateStore, pushCount>>
    ELSE Qualify(r, q, updateLeadState(leadStateStore, q.msg.from, q.msg.text, now))

\* the history of the sets of a dedup map: admitted after a check of k at
\* time t that returned dup
Admitted(admitted, k, dup, t) ==
  IF Truthy(k) /\ ~dup THEN MapSet(admitted, k, t) ELSE admitted

\* the handler from if (isDuplicateKey(key)) on
DedupeKey(r, q, key) ==
  /\ processedMessageKeys' = KeysAfter(processedMessageKeys, key, now)
  /\ admittedKeys' = Admitted(admittedKeys, key, isDuplicateKey(processedMessageKeys, key, now), now)
  /\ IF isDuplicateKey(processedMessageKeys, key, now)
       THEN /\ Return(r, q, "dup_key", "none")
            /\ UNCHANGED <<conversationStore, leadStateStore, pushCount>>
       ELSE Process(r, q)

\* the handler with has(id) and has(key) tested, and set(id, now) and
\* set(key, now) left for after its first await
DedupeDeferred(r, q, key) ==
  /\ UNCHANGED <<processedMessageIds, processedMessageKeys, admittedIds, admittedKeys>>
  /\ IF \/ isDuplicateMessage(processedMessageIds, q.msg.id, now)
        \/ isDuplicateKey(processedMessageKeys, key, now)
       THEN /\ Return(r, q, "dup_id", "none")
            /\ UNCHANGED <<conversationStore, leadStateStore, pushCount>>
       ELSE Process(r, q)

\* the handler from const messageId = msg.id on
Dedupe(r, q, key) ==
  /\ processedMessageIds' = IdsAfter(processedMessageIds, q.msg.id, now)
  /\ admittedIds' = Admitted(admittedIds, q.msg.id,
                             isDuplicateMessage(processedMessageIds, q.msg.id, now), now)
  /\ IF isDuplicateMessage(processedMessageIds, q.msg.id, now)
       THEN /\ Return(r, q, "dup_id", "none")
            /\ UNCHANGED <<processedMessageKeys, admittedKeys, conversationStore,
                           leadStateStore, pushCount>>
       ELSE DedupeKey(r, q, key)

\* a POST delivery with value.messages = messages is taken by the free slot r
Receive(r, messages) ==
  /\ ~InFlight(r)
  /\ \A x \in Slots : x < r => InFlight(x)
  /\ delivered' = delivered + 1
  /\ UNCHANGED <<now, ticks, call>>
  /\ IF messages = <<>>
       THEN /\ Return(r, IdleReq, "status", "none")
            /\ UNCHANGED <<stores, history>>
       ELSE Dedupe(r, [IdleReq EXCEPT !.msg = messages[1]], CompositeKey(messages[1]))

\* const aiResult = await withTimeout(callArliAI(...), 6500) resumes with
\* aiResult: extractReplyText, pushTurn, and the send up to its await
Reply(r, aiResult, path) ==
  /\ StartSend(r, req[r], conversationStore, pushCount, ReplyText(aiResult), path)
  /\ UNCHANGED <<now, ticks, delivered, processedMessageIds, processedMessageKeys,
                 leadStateStore, admittedIds, admittedKeys, call>>

\* fetch of the completion resolves with a response (any HTTP status):
\* finally clears the abort timer and callArliAI awaits r.json()
GenFetchResolve(r) ==
  /\ req[r].pc = "gen_fetch"
  /\ req' = [req EXCEPT ![r].pc = "gen_body"]
  /\ UNCHANGED <<now, ticks, delivered, stores, history, last, call>>

\* fetch of the completion rejects (a network error, or the abort timer of
\* fetchWithTimeout fired): the catch of callArliAI
GenFetchReject(r) ==
  /\ req[r].pc = "gen_fetch"
  /\ Reply(r, FallbackQuestion(req[r].missing), "fallback")

\* r.json() resolves with data
GenBodyResolve(r, data) ==
  /\ req[r].pc = "gen_body"
  /\ Reply(r, CompletionText(data), CompletionPath(data))

\* r.json() rejects (the body is not JSON, the connection drops): the catch
\* of callArliAI
GenBodyReject(r) ==
  /\ req[r].pc = "gen_body"
  /\ Reply(r, FallbackQuestion(req[r].missing), "fallback")

\* the timer of withTimeout around callArliAI fires.  It is set after the
\* abort timer and is due 500 ms later, so it never fires while fetch is
\* pending; once fetch resolved the abort timer is cleared and nothing else
\* bounds r.json().  The await throws into the catch of the handler.
GenTimeout(r) ==
  /\ req[r].pc = "gen_body"
  /\ Return(r, req[r], "gen_timeout", "none")
  /\ UNCHANGED <<now, ticks, delivered, stores, history, call>>

\* sendWhatsAppText resolves (fetch and r.json() resolved, whatever r.ok
\* is): the handler returns 200
SendResolve(r) ==
  /\ req[r].pc = "send"
  /\ Return(r, req[r], req[r].path, "returned")
  /\ UNCHANGED <<now, ticks, delivered, stores, history, call>>

\* a catch of the handler that releases the message for a retry: it deletes
\* its identifier and its key from the dedup stores
SendRejectRollback(r) ==
  /\ req[r].pc = "send"
  /\ Return(r, req[r], req[r].path, "failed")
  /\ processedMessageIds' =
       MapKeep(processedMessageIds, DOMAIN processedMessageIds \ {req[r].msg.id})
  /\ processedMessageKeys' =
       MapKeep(processedMessageKeys, DOMAIN processedMessageKeys \ {CompositeKey(req[r].msg)})
  /\ UNCHANGED <<now, ticks, delivered, conversationStore, leadStateStore, history, call>>

\* fetch or r.json() of the send rejects: the catch of the handler
SendReject(r) ==
  /\ req[r].pc = "send"
  /\ Return(r, req[r], req[r].path, "failed")
  /\ UNCHANGED <<now, ticks, delivered, stores, history, call>>

\* a handler that calls sendWhatsAppText once more when the timer fires,
\* and gives up the second time
SendTimeoutRetry(r) ==
  /\ req[r].pc = "send"
  /\ IF req[r].sends < 2
       THEN req' = [req EXCEPT ![r].sends = req[r].sends + 1] /\ UNCHANGED last
       ELSE Return(r, req[r], req[r].path, "timeout")
  /\ UNCHANGED <<now, ticks, delivered, stores, history, call>>

\* the timer of withTimeout around sendWhatsAppText fires: the catch of the
\* handler
SendTimeout(r) ==
  /\ req[r].pc = "send"
  /\ Return(r, req[r], req[r].path, "timeout")
  /\ UNCHANGED <<now, ticks, delivered, stores, history, call>>

\* the longest an await of invocation q lasts: its timer is then due
TimerSpan(q) == IF q.pc = "gen_fetch" THEN FETCH_ABORT_MS ELSE HANDLER_TIMEOUT_MS

\* the clock advances by d.  A suspended invocation resumes before the clock
\* passes its timer: the model does not count how much of the span of a
\* pending timer has elapsed, the timer may fire at any point of the await.
\* Only differences of clock values are read, so the first delivery is
\* taken to arrive at the initial clock value.
Tick(d) ==
  /\ delivered > 0
  /\ \A r \in Slots : InFlight(r) => d <= TimerSpan(req[r])
  /\ now' = now + d
  /\ ticks' = ticks + 1
  /\ UNCHANGED <<stores, req, last, history, delivered, call>>

(***************************************************************************)
(* The environment of the main specification                               *)
(***************************************************************************)
Msg(id, from, timestamp, text) ==
  [id |-> id, from |-> from, timestamp |-> timestamp, text |-> text]

\* the payloads delivered: a status event, a message and its redeliveries
\* (same identifier, same key), the same key under another identifier and
\* under none, the same identifier on another key, another sender, and a
\* message without a text body
Payloads ==
  { <<>>,
    <<Msg("wamid.1", "A", "1700000000", TextLogo)>>,
    <<Msg("wamid.2", "A", "1700000000", TextLogo)>>,
    <<Msg(Undefined, "A", "1700000000", TextLogo)>>,
    <<Msg("wamid.1", "A", "1700000001", TextOffer)>>,
    <<Msg("wamid.3", "B", "1700000000", TextBrand)>>,
    <<Msg("wamid.4", "A", "1700000002", Undefined)>> }

\* the clock advances
Steps == {1, DEDUPE_TTL_MS, CONVO_TTL_MS, STATE_TTL_MS}

\* a POST delivery carrying a payload of payloads, at most deliveries of them
Deliver(payloads, deliveries) ==
  \E r \in Slots, p \in payloads : delivered < deliveries /\ Receive(r, p)

\* r.json() of a completion resolves with a body of completions
Complete(completions) ==
  \E r \in Slots, data \in completions : GenBodyResolve(r, data)

\* a suspended invocation resumes otherwise
Resume ==
  \/ \E r \in Slots : GenFetchResolve(r)
  \/ \E r \in Slots : GenFetchReject(r)
  \/ \E r \in Slots : GenBodyReject(r)
  \/ \E r \in Slots : GenTimeout(r)
  \/ \E r \in Slots : SendResolve(r)
  \/ \E r \in Slots : SendReject(r)
  \/ \E r \in Slots : SendTimeout(r)

\* the clock advances by a step of steps, at most advances times
Advance(steps, advances) ==
  \E d \in steps : ticks < advances /\ Tick(d)

Next ==
  \/ Deliver(Payloads, MaxDeliveries)
  \/ Complete(Completions)
  \/ Resume
  \/ Advance(Steps, MaxTicks)

Spec == Init /\ [][Next]_vars

(***************************************************************************)
(* The environment of the specification of long conversations: one sender  *)
(* writes a series of distinct messages that carry no identifier.          *)
(***************************************************************************)
\* deliveries of the series
MaxSeries == 5
\* clock advances during the series
MaxSeriesTicks == 1

\* the k-th message of the series
SeriesMsg(k) == Msg(Undefined, "A", "170000000" \o CharAt(Digits, (k % 10) + 1), TextLogo)

\* the sender pauses for longer than the life of a conversation record
SeriesSteps == {CONVO_TTL_MS + 1}

\* the body of every completion of the series
SeriesCompletions == {[content |-> " Sure, what is the brand called? ", reply |-> Undefined]}

NextSeries ==
  \/ Deliver({<<SeriesMsg(delivered)>>}, MaxSeries)
  \/ Complete(SeriesCompletions)
  \/ Resume
  \/ Advance(SeriesSteps, MaxSeriesTicks)

SpecSeries == Init /\ [][NextSeries]_vars

(***************************************************************************)
(* The environment of the specification of malformed events: a message     *)
(* without text body, a message without sender, and a well-formed one.     *)
(***************************************************************************)
MalformedPayloads ==
  { <<Msg("wamid.4", "A", "1700000002", Undefined)>>,
    <<Msg("wamid.5", Undefined, "1700000003", TextLogo)>>,
    <<Msg("wamid.1", "A", "1700000000", TextLogo)>> }

NextMalformed ==
  \/ Deliver(MalformedPayloads, MaxDeliveries)
  \/ Complete(Completions)
  \/ Resume
  \/ Advance({1}, MaxTicks)

SpecMalformed == Init /\ [][NextMalformed]_vars

(***************************************************************************)
(* The environment of the specification of the quick rules: messages of    *)
(* one sender that match no rule, the first rule, the second rule, and     *)
(* both rules.                                                             *)
(***************************************************************************)
QuickPayloads ==
  { <<Msg("wamid.1", "A", "1700000000", TextLogo)>>,
    <<Msg("wamid.6", "A", "1700000001", TextOffer)>>,
    <<Msg("wamid.7", "A", "1700000002", TextCollab)>>,
    <<Msg("wamid.8", "A", "1700000003", TextPartner)>> }

NextQuick ==
  \/ Deliver(QuickPayloads, MaxDeliveries)
  \/ Complete(Completions)
  \/ Resume

SpecQuick == Init /\ [][NextQuick]_vars

(***************************************************************************)
(* The environment of the specification of retries: the platform delivers  *)
(* the same event several times while it is being handled, and an event of *)
(* another sender.                                                         *)
(***************************************************************************)
RetryEvents ==
  { Msg("wamid.1", "A", "1700000000", TextLogo),
    Msg("wamid.3", "B", "1700000000", TextBrand) }

NextRetry ==
  \/ Deliver({<<e>> : e \in RetryEvents}, MaxDeliveries)
  \/ Complete(Completions)
  \/ Resume
  \/ Advance({1}, MaxTicks)

SpecRetry == Init /\ [][NextRetry]_vars

(***************************************************************************)
(* The environment of the specification of two senders: their events       *)
(* interleave, and the clock advances up to the TTLs of the stores.        *)
(***************************************************************************)
NextSenders ==
  \/ Deliver({<<e>> : e \in RetryEvents}, MaxDeliveries)
  \/ Complete(Completions)
  \/ Resume
  \/ Advance(Steps, MaxTicks)

SpecSenders == Init /\ [][NextSenders]_vars

(***************************************************************************)
(* The environment of the specification of concurrent events: one sender   *)
(* writes two messages, the second while the first is being handled.       *)
(***************************************************************************)
PairEvents ==
  { Msg("wamid.1", "A", "1700000000", TextLogo),
    Msg("wamid.9", "A", "1700000004", TextBrand) }

NextPair ==
  \/ Deliver({<<e>> : e \in PairEvents}, MaxDeliveries)
  \/ Complete(Completions)
  \/ Resume
  \/ Advance({1}, MaxTicks)

SpecPair == Init /\ [][NextPair]_vars

(***************************************************************************)
(* The specification of termination: every kind of delivery, and the        *)
(* event loop resumes a suspended invocation whose await has settled.  An  *)
(* await of the handler always settles: fetch of the completion is aborted *)
(* after 6000 ms, and the calls of callArliAI and of sendWhatsAppText race *)
(* a timer of 6500 ms in withTimeout.                                      *)
(***************************************************************************)
\* a status event, a message (its second delivery is a duplicate), a message
\* a quick rule answers, and a message without text body
LivePayloads ==
  { <<>>,
    <<Msg("wamid.1", "A", "1700000000", TextLogo)>>,
    <<Msg("wamid.6", "A", "1700000001", TextOffer)>>,
    <<Msg("wamid.4", "A", "1700000002", Undefined)>> }

\* the invocation of slot r resumes from its await
Resumed(r) ==
  \/ GenFetchResolve(r)
  \/ GenFetchReject(r)
  \/ \E data \in Completions : GenBodyResolve(r, data)
  \/ GenBodyReject(r)
  \/ GenTimeout(r)
  \/ SendResolve(r)
  \/ SendReject(r)
  \/ SendTimeout(r)

NextLive ==
  \/ Deliver(LivePayloads, MaxDeliveries)
  \/ Complete(Completions)
  \/ Resume

SpecLive == Init /\ [][NextLive]_vars /\ \A r \in Slots : WF_vars(Resumed(r))

(***************************************************************************)
(* The specification of the helpers that read no store: a helper is called *)
(* with an argument drawn from a bounded set, and returns.                 *)
(***************************************************************************)
\* the turns of a conversation given to nextQuestionFallback
MaxConvo == 3
\* the members of an object text given to extractReplyText
MaxMembers == 2

\* the names getMissingFields lists, in its order
SlotOrder ==
  <<"service", "timeline", "brand_name", "style", "budget", "contact_name", "contact_channel">>

\* the sublist of SlotOrder of the names in S
SubList(S) == SelectSeq(SlotOrder, LAMBDA name : name \in S)

\* the values of the parameter missing of callArliAI: every sublist of
\* SlotOrder, and a value that is not an array
MissingValues == {ArrayOf(SubList(S)) : S \in SUBSET SlotNames} \cup {NotAnArray}

\* the contents of the turns given to nextQuestionFallback
TurnContents == {"Logo", "modern", "today", "Brand is Acme", "budget 5k", "hi"}

\* the conversations given to nextQuestionFallback: user turns only
Conversations ==
  UNION {[1..n -> {[role |-> "user", content |-> c, n |-> 0] : c \in TurnContents}] :
           n \in 0..MaxConvo}

\* the lead states given to getMissingFields: every slot is null or filled
LeadStates ==
  [service : {Null, "logo"}, timeline : {Null, "in 2 weeks"}, budget : {Null, "5k"},
   brand_name : {Null, "Acme"}, style : {Null, "modern"}, contact_name : {Null, "Sam"},
   contact_channel : {Null, "email"}, references : {Null, "www.acme.com"}, ts : {1}]

\* a result of the generation step that is an object
ObjectResult(reply, content) ==
  [object |-> TRUE, reply |-> reply, content |-> content, string |-> Undefined]

\* a result of the generation step that is the string s (or null, or
\* undefined)
StringResult(s) == [object |-> FALSE, reply |-> Undefined, content |-> Undefined, string |-> s]

\* the members an object text is made of: the three keys extractReplyText
\* reads and another one, each with an empty or a non-empty value
Members ==
  {<<key, value>> : key \in {"reply", "message", "text", "note"}, value \in {"", "v"}}

\* JSON.stringify of the members ms, from the i-th on, without the braces
RECURSIVE MembersText(_, _)
MembersText(ms, i) ==
  IF i > Len(ms) THEN ""
  ELSE "\"" \o ms[i][1] \o "\":\"" \o (IF ms[i][2] = "" THEN "" ELSE "the " \o ms[i][1]) \o "\""
       \o (IF i < Len(ms) THEN "," ELSE "") \o MembersText(ms, i + 1)

\* the object text of the members ms, between the paddings pad
ObjectTextOf(ms, pad) == pad \o "{" \o MembersText(ms, 1) \o "}" \o pad

\* the results given to extractReplyText, each with its kind and, for an
\* object text, the members it was made of
Results ==
  {[kind |-> "object", value |-> ObjectResult(reply, content), members |-> <<>>] :
     reply \in {Undefined, Null, "Hello"}, content \in {Undefined, Null, "  ", " Sure. "}}
  \cup {[kind |-> "nullish", value |-> StringResult(Undefined), members |-> <<>>]}
  \cup {[kind |-> "plain", value |-> StringResult(text), members |-> <<>>] :
          text \in {"", "   ", "hello", " Hello there ", "{half", "half]", "a {b} c"}}
  \cup {[kind |-> "json", value |-> StringResult(ObjectTextOf(ms, pad)), members |-> ms] :
          ms \in UNION {[1..n -> Members] : n \in 0..MaxMembers}, pad \in {"", " "}}
  \cup {[kind |-> "array", value |-> StringResult(text), members |-> <<>>] :
          text \in {"[]", "[\"hi\"]", "[\"reply\",\"hi\"]"}}
  \cup {[kind |-> "broken", value |-> StringResult(text), members |-> <<>>] :
          text \in {"{reply: hi}", "{\"reply\" \"hi\"}", "{\"reply\":\"hi\",}", "{'reply':'hi'}",
                    " [oops] ", "[\"hi\"", "[\"hi\",]", "{\"reply\":}"}}

\* the utterances given to updateLeadState for a sender without record:
\* answers about the contact channel, and short replies
Replies ==
  {"here", "Here", " here ", "here or email", "whatsapp please", "WhatsApp or email",
   "email me", "Email", "call me",
   "Acme", "Acme Studio", "Blue Door Cafe", "ok", "AB", "a b", "Is it Acme?", "Acme Studio.",
   "Acme Studio!", "I need help", "please Acme", "can you call", "we want it", "low budget",
   "any style", "modern look", "minimal art", "my brand is Acme", "Business: Acme Studio",
   "The Quite Long Name Of A Shop In Town 40",
   "The Quite Long Name Of A Shop In Town 41c"}

\* a call of the function fn with the argument arg, not yet returned
Call(fn, arg) == [fn |-> fn, arg |-> arg, done |-> FALSE, result |-> Undefined]

\* the call of fn in progress returns result
Returns(fn, result) ==
  /\ call.fn = fn
  /\ ~call.done
  /\ call' = [call EXCEPT !.done = TRUE, !.result = result]
  /\ UNCHANGED <<now, stores, req, last, history, delivered, ticks>>

CallCatch == Returns("callArliAI.catch", CatchQuestion(call.arg))

CallNextQuestionFallback == Returns("nextQuestionFallback", nextQuestionFallback(call.arg))

CallGetMissingFields == Returns("getMissingFields", getMissingFields(call.arg))

\* the argument of this call carries, beside the value given to the
\* function, its kind and its members
CallExtractReplyText == Returns("extractReplyText", extractReplyTextOf(call.arg.value))

\* updateLeadState(from, text) for a sender without record: the record it
\* returns
CallUpdateLeadState ==
  Returns("updateLeadState", updateLeadState(EmptyMap, "A", call.arg, now)["A"])

InitCalls ==
  /\ Loaded
  /\ \/ call \in {Call("callArliAI.catch", m) : m \in MissingValues}
     \/ call \in {Call("nextQuestionFallback", c) : c \in Conversations}
     \/ call \in {Call("getMissingFields", state) : state \in LeadStates}
     \/ call \in {Call("extractReplyText", result) : result \in Results}
     \/ call \in {Call("updateLeadState", text) : text \in Replies}

NextCalls ==
  \/ CallCatch
  \/ CallNextQuestionFallback
  \/ CallGetMissingFields
  \/ CallExtractReplyText
  \/ CallUpdateLeadState

SpecCalls == InitCalls /\ [][NextCalls]_vars

(***************************************************************************)
(* Properties.  A delivery step is a step of Receive; Handled is the       *)
(* invocation it started, as it returned or as it is left suspended.       *)
(***************************************************************************)
DeliveryStep == delivered' = delivered + 1

Returned == req' = req

Handled == IF Returned THEN last' ELSE req'[CHOOSE r \in Slots : req'[r] # req[r]]

\* a delivery step that carries a message
MessageStep == DeliveryStep /\ Handled.path # "status"

\* the guard reported the message of the delivery step as a duplicate
Dropped == Returned /\ last'.path \in {"dup_id", "dup_key"}

\* k was admitted to a dedup store, by the history admitted, within the last
\* 5 minutes
WithinTTL(admitted, k) ==
  Truthy(k) /\ k \in DOMAIN admitted /\ now - admitted[k] <= DEDUPE_TTL_MS

IdAdmitted(msg) == WithinTTL(admittedIds, msg.id)

KeyAdmitted(msg) == WithinTTL(admittedKeys, CompositeKey(msg))

\* the store m holds k with the current time
RecordedNow(m, k) == k \in DOMAIN m /\ m[k] = now

\* what the guard does on the message msg of a delivery step
GuardOn(msg) ==
  /\ Dropped <=> (IdAdmitted(msg) \/ KeyAdmitted(msg))
  /\ ~Dropped => /\ Truthy(msg.id) => RecordedNow(processedMessageIds', msg.id)
                 /\ RecordedNow(processedMessageKeys', CompositeKey(msg))
  /\ Falsy(msg.id) => /\ last'.path = "dup_id" => ~Returned
                      /\ processedMessageIds' = processedMessageIds
                      /\ Dropped <=> KeyAdmitted(msg)

\* C1: the dedup guard reports the event of a delivery as a duplicate exactly
\* when its identifier or its composite key was admitted within the last 5
\* minutes; otherwise it records both with the current time and reports the
\* event as new.  An event without identifier is never a duplicate by
\* identifier: its composite key alone decides.
C1_DedupGuard == [][MessageStep => GuardOn(Handled.msg)]_vars

\* C1 witness: a message without identifier was dropped by its composite
\* key, which a message with an identifier had admitted
C1_Witness ==
  /\ last.path = "dup_key"
  /\ Falsy(last.msg.id)
  /\ DOMAIN processedMessageIds # {}

\* the entries of the dedup store m that are not expired
Unexpired(m) == MapKeep(m, {k \in DOMAIN m : now - m[k] <= DEDUPE_TTL_MS})

\* C2 as stated: a second check of an identifier admitted within the TTL
\* reports a duplicate and changes no store at all
C2_Original ==
  [][MessageStep /\ IdAdmitted(Handled.msg) =>
       /\ Returned /\ last'.path = "dup_id"
       /\ UNCHANGED stores]_vars

\* C2: a second check of an identifier admitted within the TTL reports a
\* duplicate and changes neither the key store, the conversation store nor
\* the lead state store; of the identifier store it only removes the expired
\* identifiers, and no timestamp of it changes.
C2_DedupIdempotence ==
  [][MessageStep /\ IdAdmitted(Handled.msg) =>
       /\ Returned /\ last'.path = "dup_id"
       /\ UNCHANGED <<processedMessageKeys, conversationStore, leadStateStore>>
       /\ processedMessageIds' = Unexpired(processedMessageIds)
       /\ processedMessageIds'[Handled.msg.id] = admittedIds[Handled.msg.id]]_vars

\* C2 witness: a redelivery was dropped by its identifier after an expired
\* identifier had been removed from the store
C2_Witness ==
  /\ last.path = "dup_id"
  /\ last.msg.id \in DOMAIN processedMessageIds
  /\ DOMAIN admittedIds # DOMAIN processedMessageIds

\* C3: when the composite key of the event of a delivery was admitted within
\* the TTL, the guard reports a duplicate and changes no store, whatever the
\* identifier of the event is: an identifier not seen before is not recorded.
C3_KeyHitFrame ==
  [][MessageStep /\ KeyAdmitted(Handled.msg) => Dropped /\ UNCHANGED stores]_vars

\* k was admitted to a dedup store, by the history admitted, and not within
\* the last 5 minutes
Lapsed(admitted, k) ==
  Truthy(k) /\ k \in DOMAIN admitted /\ now - admitted[k] > DEDUPE_TTL_MS

\* the time of admission of k does not change
Kept(admitted, admittedNext, k) ==
  k \in DOMAIN admittedNext /\ admittedNext[k] = admitted[k]

\* the store m holds its entries with their times of admission
Stamped(m, admitted) ==
  \A k \in DOMAIN m : k \in DOMAIN admitted /\ m[k] = admitted[k]

\* what the guard does on a redelivery of the identifier id and the key key
RedeliveryOf(id, key) ==
  /\ WithinTTL(admittedIds, id) => Dropped /\ Kept(admittedIds, admittedIds', id)
  /\ WithinTTL(admittedKeys, key) => Dropped /\ Kept(admittedKeys, admittedKeys', key)
  /\ Lapsed(admittedIds, id) => RecordedNow(processedMessageIds', id)
  /\ Lapsed(admittedKeys, key) /\ ~WithinTTL(admittedIds, id) =>
       ~Dropped /\ RecordedNow(processedMessageKeys', key)

\* C4: an identifier or composite key is remembered for 5 minutes from its
\* admission: a redelivery at most 5 minutes after the admission is dropped,
\* a hit leaves the time of admission as it is (in the history and in the
\* store), and a redelivery later than that is admitted again with the
\* current time.
C4_Remembered ==
  [][/\ MessageStep => RedeliveryOf(Handled.msg.id, CompositeKey(Handled.msg))
     /\ Stamped(processedMessageIds', admittedIds')
     /\ Stamped(processedMessageKeys', admittedKeys')]_vars

\* the turns of role user with the content text in the record of from
UserTurns(from, text) ==
  IF from \notin DOMAIN conversationStore THEN {}
  ELSE {i \in DOMAIN conversationStore[from].messages :
          /\ conversationStore[from].messages[i].role = "user"
          /\ conversationStore[from].messages[i].content = text}

\* C4 witness: a redelivery at the end of the 5 minutes was dropped by its
\* identifier and the next one, later, was admitted again: its text is in
\* the conversation twice
C4_Witness ==
  /\ last.path = "dup_id"
  /\ Cardinality(UserTurns("A", TextLogo)) = 2
  /\ now = 1 + DEDUPE_TTL_MS + 1

\* C5: when the event of a delivery carries an identifier admitted within the
\* TTL, handling it appends no turn, changes no lead state, calls neither
\* the generation service nor the send, and acknowledges the delivery.
C5_DuplicateAbsorbed ==
  [][MessageStep /\ IdAdmitted(Handled.msg) =>
       /\ UNCHANGED <<conversationStore, leadStateStore, pushCount>>
       /\ Returned
       /\ last'.gen = 0 /\ last'.sends = 0 /\ last'.acks = 1]_vars

\* C5 witness: the second of two deliveries with the same identifier was
\* acknowledged while the first was still being handled
C5_Witness ==
  /\ last.path = "dup_id"
  /\ \E r \in Slots : InFlight(r) /\ req[r].msg.id = last.msg.id

\* the numbers of the pushTurn calls whose turns the record of from holds, in
\* the order of the record
TurnNumbers(from) ==
  [i \in DOMAIN conversationStore[from].messages |-> conversationStore[from].messages[i].n]

\* the numbers of the last k pushTurn calls of from, in the order of the calls
LastPushes(from, k) == [i \in 1..k |-> pushCount[from] - k + i]

\* C6 as stated: after more than 8 appends for a sender, the record of the
\* sender holds exactly the 8 most recent turns, in the order of the appends
C6_Original ==
  \A f \in Senders :
    pushCount[f] > MAX_TURNS =>
      f \in DOMAIN conversationStore /\ TurnNumbers(f) = LastPushes(f, MAX_TURNS)

\* C6: the record of a sender holds the most recent turns appended to it
\* since it was created, 8 of them at most, in the order of the appends:
\* after more than 8 appends for the sender, it holds exactly the 8 most
\* recent ones when at least 8 turns were appended to it since it was
\* created (a record not accessed for more than 30 minutes is deleted and
\* created again, empty).
C6_TurnBounding ==
  \A f \in Senders :
    f \in DOMAIN conversationStore =>
      /\ TurnNumbers(f) = LastPushes(f, Min({MAX_TURNS, conversationStore[f].pushed}))
      /\ pushCount[f] > MAX_TURNS /\ conversationStore[f].pushed >= MAX_TURNS =>
           TurnNumbers(f) = LastPushes(f, MAX_TURNS)

\* C6 witness: the 9th turn and more were appended to a record that was not
\* deleted meanwhile
C6_Witness ==
  /\ "A" \in DOMAIN conversationStore
  /\ pushCount["A"] > MAX_TURNS
  /\ conversationStore["A"].pushed = pushCount["A"]

\* C7: in every reachable state the record of every sender holds at most 8
\* turns, and the turns it holds are in the order they were appended.
C7_TurnsBounded ==
  \A f \in DOMAIN conversationStore :
    /\ Len(conversationStore[f].messages) <= MAX_TURNS
    /\ \A i, j \in DOMAIN conversationStore[f].messages :
         i < j => conversationStore[f].messages[i].n < conversationStore[f].messages[j].n

\* C7 witness: turns were dropped from a record of 8 turns while two
\* invocations for its sender are suspended
C7_Witness ==
  /\ "A" \in DOMAIN conversationStore
  /\ Len(conversationStore["A"].messages) = MAX_TURNS
  /\ conversationStore["A"].pushed > MAX_TURNS
  /\ Cardinality({r \in Slots : InFlight(r) /\ req[r].msg.from = "A"}) >= 2

\* the slots of a lead state record
LeadSlots ==
  {"service", "timeline", "budget", "brand_name", "style", "contact_name",
   "contact_channel", "references"}

\* the filled slots of the record of f keep their values in the step
SlotsKept(f) ==
  \A slot \in LeadSlots :
    Truthy(leadStateStore[f][slot]) =>
      f \in DOMAIN leadStateStore' /\ leadStateStore'[f][slot] = leadStateStore[f][slot]

\* C8 as stated: a filled slot of a lead state record never changes, whatever
\* the utterances, the senders and the times of the further calls
C8_Original == [][\A f \in DOMAIN leadStateStore : SlotsKept(f)]_vars

\* C8: a filled slot of a lead state record is not changed by a call of
\* updateLeadState, whatever its utterance and its sender, that comes at
\* most 60 minutes after the last access of the record (a call later than
\* that deletes the record, and its sender starts with empty slots again).
C8_SlotMonotonicity ==
  [][\A f \in DOMAIN leadStateStore :
       now - leadStateStore[f].ts <= STATE_TTL_MS => SlotsKept(f)]_vars

\* C8 witness: the sender who asked for a logo then asked about websites, and
\* the service slot still says logo
C8_Witness ==
  /\ "A" \in DOMAIN leadStateStore
  /\ leadStateStore["A"].service = "logo"
  /\ UserTurns("A", TextOffer) # {}
  /\ SlotRulesOfUtterance[TextOffer].service = "website"

\* the conversation records that are expired before the step are, after it,
\* deleted or new: such a record holds the turns of this step only
ConvoExpiry ==
  \A f \in DOMAIN conversationStore :
    now - conversationStore[f].ts > CONVO_TTL_MS =>
      \/ UNCHANGED conversationStore
      \/ f \notin DOMAIN conversationStore'
      \/ /\ conversationStore'[f].ts = now
         /\ \A i \in DOMAIN conversationStore'[f].messages :
              f \in Senders /\ conversationStore'[f].messages[i].n > pushCount[f]

\* the lead state records that are expired before the step are, after it,
\* deleted or new: such a record holds what the rules find in the utterance
\* of this step, and nothing else
LeadExpiry ==
  \A f \in DOMAIN leadStateStore :
    now - leadStateStore[f].ts > STATE_TTL_MS =>
      \/ UNCHANGED leadStateStore
      \/ f \notin DOMAIN leadStateStore'
      \/ leadStateStore'[f] = ExtractSlots(FreshLead(now), Handled.msg.text, now)

\* the handler returned on the path path in the step
ReturnedBy(path) == Returned /\ last'.path = path

\* the store m holds k with a time more than 5 minutes ago
Stale(m, k) == Truthy(k) /\ k \in DOMAIN m /\ now - m[k] > DEDUPE_TTL_MS

\* an identifier or key that is expired in its store is new to the guard
DedupExpiry(msg) ==
  /\ Stale(processedMessageIds, msg.id) =>
       ~ReturnedBy("dup_id") /\ RecordedNow(processedMessageIds', msg.id)
  /\ Stale(processedMessageKeys, CompositeKey(msg)) /\ ~ReturnedBy("dup_id") =>
       ~ReturnedBy("dup_key") /\ RecordedNow(processedMessageKeys', CompositeKey(msg))

\* C9: an entry of a store that was not touched for longer than the TTL of
\* the store (conversation 30 minutes, lead state 60 minutes, identifiers and
\* keys 5 minutes) is never returned by a later read: the read of the
\* conversation gives a new empty record, the read of the lead state gives
\* a record with all slots empty, and the guard takes the identifier or key
\* as new.
C9_TTLExpiry ==
  [][/\ ConvoExpiry
     /\ LeadExpiry
     /\ MessageStep => DedupExpiry(Handled.msg)]_vars

\* C9 witness: the sender who asked for a logo wrote again after more than 60
\* minutes: the key of the first message is gone, the conversation starts
\* with the new message and the service slot is the one of the new message
C9_Witness ==
  /\ "A" \in DOMAIN leadStateStore /\ "A" \in DOMAIN conversationStore
  /\ "A:1700000000:I need a logo" \in DOMAIN admittedKeys
  /\ "A:1700000000:I need a logo" \notin DOMAIN processedMessageKeys
  /\ now - admittedKeys["A:1700000000:I need a logo"] > STATE_TTL_MS
  /\ leadStateStore["A"].service = "website"
  /\ Len(conversationStore["A"].messages) > 0
  /\ conversationStore["A"].messages[1].n > 1
  /\ conversationStore["A"].messages[1].content = TextOffer

\* C10: every invocation that called the generation service and returned has
\* chosen a reply that is not empty and has attempted to send it, however
\* the call ended (network error, abort, deadline of the handler, at any
\* stage of the call).
C10_FallbackAlways ==
  last.pc = "done" /\ last.gen > 0 => last.sends > 0 /\ Truthy(last.replyText)

\* the invocations of the state: the suspended ones and the one that
\* returned most recently
Invocations == {req[r] : r \in Slots} \cup {last}

\* the generation step of the invocation q failed: callArliAI caught an
\* error, the body held no content, or the deadline of the handler passed
GenerationFailed(q) == q.path \in {"fallback", "generic", "gen_timeout"}

\* C11: when the generation step times out, fails or gives no content, the
\* reply is the question of the first entry of the missing-slot list, and the
\* generic question is the reply only when no slot is missing.
C11_FallbackQuestion ==
  \A q \in Invocations :
    GenerationFailed(q) =>
      /\ q.replyText = FallbackQuestion(q.missing)
      /\ q.replyText = GenericQuestion => q.missing = <<>>

\* the call in progress is one of fn and has returned
CallReturned(fn) == call.fn = fn /\ call.done

\* C12: for every missing-slot list (every sublist of the seven slot names
\* in their order, the empty list, and a value that is not an array) the
\* catch block of callArliAI returns a question that is not empty; so does
\* nextQuestionFallback for every conversation.
C12_FallbackTotality ==
  CallReturned("callArliAI.catch") \/ CallReturned("nextQuestionFallback") =>
    /\ Truthy(call.result)
    /\ Len(call.result) > 1
    /\ endsWith(call.result, "?")

\* C12 witness: the catch block has returned the generic question for a
\* value that is not an array
C12_Witness ==
  /\ CallReturned("callArliAI.catch")
  /\ call.arg = NotAnArray
  /\ call.result = GenericQuestion

\* the message lacks its text body or its sender
Malformed(msg) == Falsy(msg.text) \/ Falsy(msg.from)

\* C13: a delivery whose message lacks its text body or its sender changes
\* no store (dedup, conversation, lead state), calls neither the generation
\* service nor the send, and is acknowledged.
C13_MalformedNoOp ==
  [][MessageStep /\ Malformed(Handled.msg) =>
       /\ UNCHANGED stores
       /\ Returned
       /\ last'.gen = 0 /\ last'.sends = 0 /\ last'.acks = 1]_vars

\* a suspended invocation has sent no response; the step that ends an
\* invocation, at once or after its awaits, sends its one response
AckOnce ==
  /\ \A r \in Slots : InFlight(r) => req[r].acks = 0
  /\ \A r \in Slots :
       InFlight(r) /\ req'[r].pc = "idle" =>
         last'.pc = "done" /\ last'.msg = req[r].msg /\ last'.acks = 1
  /\ DeliveryStep /\ Returned => last'.pc = "done" /\ last'.acks = 1

\* C14: every POST delivery (a status event, a duplicate, a message without
\* text, a quick-rule reply, a generated reply, a generation or a send that
\* fails or times out) ends, and ends with exactly one response, the
\* acknowledgement.
C14_AcknowledgedOnce ==
  /\ [][AckOnce]_vars
  /\ \A r \in Slots : InFlight(r) ~> ~InFlight(r)

\* C14 witness: an invocation whose send timed out has returned with one
\* response, while another one is still suspended
C14_Witness ==
  /\ last.pc = "done" /\ last.sent = "timeout" /\ last.acks = 1
  /\ \E r \in Slots : InFlight(r)

\* C15: for every lead state, getMissingFields returns the empty slots among
\* service, timeline, brand_name, style, budget, contact_name and
\* contact_channel, each once and in that order; references is never listed.
C15_MissingFields ==
  CallReturned("getMissingFields") =>
    /\ call.result = SubList({name \in SlotNames : Falsy(call.arg[name])})
    /\ \A i, j \in DOMAIN call.result : call.result[i] = call.result[j] => i = j
    /\ \A i \in DOMAIN call.result : call.result[i] # "references"

\* C15 witness: getMissingFields has returned style and budget, in that
\* order, for a lead state whose references slot is empty as well
C15_Witness ==
  /\ CallReturned("getMissingFields")
  /\ call.result = <<"style", "budget">>
  /\ Falsy(call.arg.references)

\* the intent of each utterance of the model: "offer" when it contains
\* 'what do you offer' or 'services', else "collab" when it contains
\* 'collaboration', 'collab' or 'partner', else "none"
IntentOfUtterance ==
  [text \in Utterances |->
     IF TestAny(toLowerCase(text), {"what do you offer", "services"}) THEN "offer"
     ELSE IF TestAny(toLowerCase(text), {"collaboration", "collab", "partner"}) THEN "collab"
     ELSE "none"]

\* the invocation q went past the test of the text body
Processed(q) == q.path \notin {"none", "status", "dup_id", "dup_key", "no_text"}

\* the invocation q has the canned reply text and never called the
\* generation service
Canned(q, text) == q.path = "quick" /\ q.replyText = text /\ q.gen = 0 /\ q.sends = 1

\* C16: an event whose utterance matches a quick rule (the offer rule is
\* tested first, then the collaboration rule) gets the canned text of the
\* rule and the generation service is not called for it; for any other
\* processed event the generation service is called exactly once.
C16_QuickRules ==
  \A q \in Invocations :
    Processed(q) /\ q.msg.text \in Utterances =>
      /\ IntentOfUtterance[q.msg.text] = "offer" => Canned(q, QuickOffer)
      /\ IntentOfUtterance[q.msg.text] = "collab" => Canned(q, QuickCollab)
      /\ IntentOfUtterance[q.msg.text] = "none" => q.path # "quick" /\ q.gen = 1

\* C16 witness: a message that matches both rules was answered with the
\* canned text of the offer rule, one that matches the collaboration rule
\* is suspended at its send, and no call of the generation service was made
C16_Witness ==
  /\ last.pc = "done" /\ last.msg.text = TextPartner
  /\ last.replyText = QuickOffer /\ last.gen = 0
  /\ \E r \in Slots : req[r].msg.text = TextCollab /\ req[r].replyText = QuickCollab

\* the value of the member key of the members ms, written as MembersText
\* writes it
MemberValue(ms, key) ==
  Let(Field(ms, key), LAMBDA v : IF Falsy(v) THEN v ELSE "the " \o key)

\* the reply the contract gives for the object o: its reply field, else its
\* completion content, else the default
ReplyOfObject(o) ==
  IF Truthy(o.reply) THEN o.reply
  ELSE IF o.content # Undefined /\ trim(o.content) # "" THEN trim(o.content)
  ELSE DefaultReply

\* the first of reply, message, text that the members ms give a non-empty
\* value; Undefined when there is none
FirstPresent(ms) ==
  IF Truthy(MemberValue(ms, "reply")) THEN MemberValue(ms, "reply")
  ELSE IF Truthy(MemberValue(ms, "message")) THEN MemberValue(ms, "message")
  ELSE IF Truthy(MemberValue(ms, "text")) THEN MemberValue(ms, "text")
  ELSE Undefined

\* what the contract says of the result a of extractReplyText(a.value): an
\* object, a string that does not look like JSON, an object text that
\* parses and names one of the three fields, a text that does not parse
Extraction(a, result) ==
  /\ a.kind = "object" => result = ReplyOfObject(a.value)
  /\ a.kind = "json" /\ Truthy(FirstPresent(a.members)) => result = FirstPresent(a.members)
  /\ a.kind = "broken" => result = trim(a.value.string)

\* C17 as stated: beside the cases of Extraction, every string that does not
\* look like a JSON object or array is the reply, trimmed
C17_Original ==
  CallReturned("extractReplyText") =>
    /\ Extraction(call.arg, call.result)
    /\ call.arg.kind = "plain" => call.result = trim(call.arg.value.string)

\* C17: for a structured object the reply is its reply field, else its
\* completion content, trimmed, else the default; for a string that does not
\* look like a JSON object or array it is the string, trimmed, when that is
\* not empty; for a text that looks like one and parses it is the first of
\* reply, message, text that is present and not empty; for one that does
\* not parse it is the text, trimmed.  In every other case (null, undefined,
\* a string that is empty or white space, a parsed object without any of the
\* three fields, a parsed array) the reply is the default.
C17_ReplyExtraction ==
  CallReturned("extractReplyText") =>
    /\ Extraction(call.arg, call.result)
    /\ call.arg.kind = "plain" /\ trim(call.arg.value.string) # "" =>
         call.result = trim(call.arg.value.string)
    /\ call.arg.kind = "plain" /\ trim(call.arg.value.string) = "" => call.result = DefaultReply
    /\ call.arg.kind = "nullish" => call.result = DefaultReply
    /\ call.arg.kind = "array" => call.result = DefaultReply
    /\ call.arg.kind = "json" /\ Falsy(FirstPresent(call.arg.members)) =>
         call.result = DefaultReply

\* C17 witness: extractReplyText has returned the reply field of a padded
\* object text whose first member is message
C17_Witness ==
  /\ CallReturned("extractReplyText")
  /\ call.arg.value.string = " {\"message\":\"the message\",\"reply\":\"the reply\"} "
  /\ call.result = "the reply"

\* the suspended invocations that handle the event e
Handling(e) == {r \in Slots : InFlight(r) /\ req[r].msg = e}

\* the event e was delivered before: a turn of its sender, who sends no
\* other event, was appended
Delivered(e) == pushCount[e.from] > 0

\* of the deliveries of e so far one was processed: its text is in the
\* conversation once, with the one reply at most, and one invocation at
\* most is handling it
ProcessedOnce(e) ==
  /\ Cardinality(UserTurns(e.from, e.text)) = 1
  /\ pushCount[e.from] <= 2
  /\ Cardinality(Handling(e)) <= 1

\* C18: of several deliveries of the same event (same identifier, same
\* composite key) handled concurrently, exactly one is taken as new and
\* processed, whatever the interleaving: the first one; every other one is
\* dropped as a duplicate.
C18_AtomicAdmit ==
  /\ [](\A e \in RetryEvents : Delivered(e) => ProcessedOnce(e))
  /\ [][\A e \in RetryEvents :
          MessageStep /\ Handled.msg = e => (Dropped <=> Delivered(e))]_vars

\* C18 witness: three deliveries of the same event, the second and the third
\* while the first one is suspended at its send
C18_Witness ==
  /\ delivered = 3
  /\ ~Delivered(Msg("wamid.3", "B", "1700000000", TextBrand))
  /\ last.path = "dup_id"
  /\ \E r \in Slots : req[r].pc = "send" /\ req[r].msg = last.msg

\* both events of the pair were handled and their handlers have returned
PairFinished ==
  /\ \A e \in PairEvents : CompositeKey(e) \in DOMAIN admittedKeys
  /\ \A r \in Slots : ~InFlight(r)

\* the turns of role assistant in the record of from
AssistantTurns(from) ==
  IF from \notin DOMAIN conversationStore THEN {}
  ELSE {i \in DOMAIN conversationStore[from].messages :
          conversationStore[from].messages[i].role = "assistant"}

\* every turn appended for from is in its record, in the order of the
\* appends (4 turns at most are appended for the pair: the window of 8 drops
\* none), and every slot that an utterance of the pair fills is filled
NoWriteLost(from) ==
  /\ from \in DOMAIN conversationStore /\ from \in DOMAIN leadStateStore
  /\ TurnNumbers(from) = LastPushes(from, pushCount[from])
  /\ \A e \in PairEvents : Cardinality(UserTurns(from, e.text)) = 1
  /\ \A e \in PairEvents : \A slot \in LeadSlots \ {"contact_name"} :
       Truthy(SlotRulesOfUtterance[e.text][slot]) => Truthy(leadStateStore[from][slot])

\* C19: when two text events of one sender are handled concurrently, their
\* handlers interleaving at their awaits, then once both have returned no
\* write is lost: both user turns and both assistant turns are in the
\* conversation record, and every slot either utterance fills is filled.
C19_NoLostWrite ==
  PairFinished => NoWriteLost("A") /\ Cardinality(AssistantTurns("A")) = 2

\* the step that resumes an invocation suspended at its send ends it, with
\* its one call of sendWhatsAppText and its acknowledgement
SendEnds(r) ==
  req[r].pc = "send" /\ req'[r] # req[r] =>
    /\ req'[r].pc = "idle"
    /\ last'.msg = req[r].msg /\ last'.sends = 1 /\ last'.acks = 1
    /\ last'.sent \in {"returned", "failed", "timeout"}

\* C20: the handler calls the send at most once for an event; a send that
\* fails or times out is not tried again, and the event is acknowledged
\* all the same.
C20_NoRetry ==
  /\ [](\A q \in Invocations : q.sends <= 1 /\ (q.sends = 1 <=> q.sent # "none"))
  /\ [][\A r \in Slots : SendEnds(r)]_vars

\* C20 witness: two events were handled, each with its one reply; the send
\* of the one that returned last failed, it was made once and the event was
\* acknowledged
C20_Witness ==
  /\ last.sent = "failed" /\ last.sends = 1 /\ last.acks = 1
  /\ delivered = 2
  /\ \A r \in Slots : ~InFlight(r)
  /\ Cardinality(AssistantTurns("A")) = 2

\* the utterance text, trimmed and in lower case, is 'here' or mentions
\* 'whatsapp'
NamesWhatsApp(text) ==
  toLowerCase(trim(text)) = "here" \/ includes(toLowerCase(text), "whatsapp")

\* the utterance text mentions 'email'
NamesEmail(text) == includes(toLowerCase(text), "email")

\* C21: in the contact-channel rule the first alternative that matches wins:
\* an utterance that is 'here' or mentions 'whatsapp' gives whatsapp, also
\* when it mentions 'email'; email is stored only when the first
\* alternative does not match.
C21_FirstChannelWins ==
  CallReturned("updateLeadState") =>
    /\ NamesWhatsApp(call.arg) => call.result.contact_channel = "whatsapp"
    /\ ~NamesWhatsApp(call.arg) /\ NamesEmail(call.arg) => call.result.contact_channel = "email"
    /\ ~NamesWhatsApp(call.arg) /\ ~NamesEmail(call.arg) => Falsy(call.result.contact_channel)

\* the trimmed utterance t is a short reply: the explicit brand/business-name
\* pattern does not match it, it has 3 to 40 characters, no sentence
\* punctuation and none of the disqualifying words
ShortReply(t) ==
  /\ Falsy(trim(BrandMatch(t)))
  /\ Len(t) >= 3 /\ Len(t) <= 40
  /\ ~HasPunct(t)
  /\ ~TestAny(toLowerCase(t), {"i need", "please", "can you", "want", "budget", "style",
                               "modern", "minimal"})

\* C22: when brand_name is empty and the explicit pattern does not match,
\* every utterance of 3 to 40 characters without sentence punctuation and
\* without disqualifying word is stored verbatim as brand_name, with or
\* without whitespace in it (a single-word reply included).
C22_ShortReplyIsBrandName ==
  CallReturned("updateLeadState") /\ ShortReply(trim(call.arg)) =>
    call.result.brand_name = trim(call.arg)

\* the questions of nextQuestionFallback that ask for the brand name, for the
\* style and for the budget
AsksBrandName ==
  {"Great. What's the brand or business name?",
   "Thanks for the details. What's your brand or business name and what style do you like?"}

AsksStyle ==
  {"Nice. What style do you want (modern, minimal, bold, etc.) or any references?",
   "Thanks for the details. What's your brand or business name and what style do you like?"}

AsksBudget == {"Got it. Do you have a budget range in mind for this logo?"}

\* the question does not ask for a topic that the flags f say is covered
NoReAsk(f, question) ==
  /\ f.hasBrandName => question \notin AsksBrandName
  /\ f.hasStyle => question \notin AsksStyle
  /\ f.hasBudget => question \notin AsksBudget

\* C23: nextQuestionFallback never asks again for a covered topic: whatever
\* its flags and the length of the last user text, the question returned
\* does not ask for the brand name when hasBrandName holds, for the style
\* when hasStyle holds, or for the budget when hasBudget holds.
C23_NoReAsk ==
  CallReturned("nextQuestionFallback") =>
    NoReAsk(ConvoFlags(call.arg, JoinLower(call.arg)), call.result)

\* the slot is filled in the lead-state record of from in the store
Filled(store, from, slot) ==
  from \in DOMAIN store /\ Truthy(store[from][slot])

\* the invocation r resumes in the catch of callArliAI: its reply, the
\* question of the table, is recorded and its send begins
FallbackStep(r) ==
  /\ req[r].pc \in {"gen_fetch", "gen_body"}
  /\ req'[r].pc = "send" /\ req'[r].path = "fallback"

\* C24: the question chosen after a failure of the generation call is never
\* about a slot that is filled in the lead state of the sender at the moment
\* the reply is recorded and sent, also when another event of the same
\* sender fills slots while the generation call is pending.
C24_FallbackAsksMissingSlot ==
  [][\A r \in Slots : FallbackStep(r) =>
       \A slot \in SlotNames :
         req'[r].replyText = QuestionFor(slot) =>
           ~Filled(leadStateStore', req[r].msg.from, slot)]_vars

\* the sender whose event the step handles: the one of the message delivered,
\* or the one of the invocation that resumes (none in a step of the clock)
Actor ==
  IF DeliveryStep THEN Handled.msg.from
  ELSE IF Returned THEN Undefined
  ELSE req[CHOOSE r \in Slots : req'[r] # req[r]].msg.from

\* the record of f in the store is not changed by the step, or it was past
\* the TTL ttl and is removed; no record of f is created
Untouched(store, after, f, ttl) ==
  IF f \in DOMAIN store
    THEN \/ f \in DOMAIN after /\ after[f] = store[f]
         \/ f \notin DOMAIN after /\ now - store[f].ts > ttl
    ELSE f \notin DOMAIN after

\* C25: handling an event of a sender never changes the turns of the
\* conversation record or the slots of the lead-state record of another
\* sender while that record is within its TTL; the only effect on other
\* senders is the removal of records already past their TTL.
C25_SenderIndependence ==
  [][\A f \in Senders \ {Actor} :
       /\ Untouched(conversationStore, conversationStore', f, CONVO_TTL_MS)
       /\ Untouched(leadStateStore, leadStateStore', f, STATE_TTL_MS)]_vars

\* C25 witness: an event of sender A was handled after the last one of
\* sender B, while the records of B, with a turn and a brand name, were
\* within their TTL, and both senders have their records
C25_Witness ==
  /\ "A" \in DOMAIN conversationStore /\ "B" \in DOMAIN conversationStore
  /\ "A" \in DOMAIN leadStateStore /\ "B" \in DOMAIN leadStateStore
  /\ conversationStore["A"].ts > conversationStore["B"].ts
  /\ conversationStore["A"].ts - conversationStore["B"].ts <= CONVO_TTL_MS
  /\ leadStateStore["A"].ts > leadStateStore["B"].ts
  /\ Len(conversationStore["B"].messages) > 0
  /\ leadStateStore["B"].brand_name = "Acme"
  /\ leadStateStore["A"].service = "logo"

\* the turns of the record of from in the store (none without record)
TurnsOf(store, from) == IF from \in DOMAIN store THEN store[from].messages ELSE <<>>

\* the turn at position i of turns has the role and the content
TurnIs(turns, i, role, content) ==
  i \in DOMAIN turns /\ turns[i].role = role /\ turns[i].content = content

\* the turns hold a turn of the role with the content
Recorded(turns, role, content) == \E i \in DOMAIN turns : TurnIs(turns, i, role, content)

\* the step admits the text event of invocation r: after it the user turn is
\* recorded and the lead state has the record of the sender; when the
\* generation call starts, the user turn is the last turn of the record
UserTurnFirst(r) ==
  req[r].pc = "idle" /\ req'[r].pc \in {"gen_fetch", "send"} =>
    /\ Recorded(TurnsOf(conversationStore', req'[r].msg.from), "user", req'[r].msg.text)
    /\ req'[r].msg.from \in DOMAIN leadStateStore'
    /\ req'[r].pc = "gen_fetch" =>
         TurnIs(TurnsOf(conversationStore', req'[r].msg.from),
                Len(TurnsOf(conversationStore', req'[r].msg.from)), "user", req'[r].msg.text)

\* the step starts the delivery of the reply of invocation r: the reply is
\* the last turn of the record of the sender, an assistant turn, appended
\* in this step
ReplyRecordedFirst(r) ==
  req[r].pc # "send" /\ req'[r].pc = "send" =>
    /\ TurnIs(TurnsOf(conversationStore', req'[r].msg.from),
              Len(TurnsOf(conversationStore', req'[r].msg.from)), "assistant", req'[r].replyText)
    /\ pushCount'[req'[r].msg.from] = pushCount[req'[r].msg.from] + 1

\* the step ends the delivery of invocation r, resolved, failed or timed
\* out: the conversations are as before and the reply is still recorded
ReplyStays(r) ==
  req[r].pc = "send" /\ req'[r].pc = "idle" =>
    /\ conversationStore' = conversationStore
    /\ Recorded(TurnsOf(conversationStore', req[r].msg.from), "assistant", req[r].replyText)

\* C26: within the turn of an admitted text event of a sender, the user turn
\* is appended before the lead state is updated and before any generation
\* call; every delivery attempt of a reply text comes after the append of
\* that text as an assistant turn of the sender; and the assistant turn
\* stays recorded when the delivery fails or times out.
C26_TurnOrdering ==
  [][\A r \in Slots : UserTurnFirst(r) /\ ReplyRecordedFirst(r) /\ ReplyStays(r)]_vars

\* the step delivers the event e again, within 5 minutes of its admission
Redelivery(e) ==
  /\ DeliveryStep /\ Handled.msg = e
  /\ IdAdmitted(e) /\ KeyAdmitted(e)

\* the delivery step does not process its event: it is dropped as a
\* duplicate, no turn is appended, no slot is written, and no invocation is
\* left suspended
NotProcessed ==
  /\ Dropped
  /\ UNCHANGED <<conversationStore, leadStateStore, pushCount>>

\* C27: the admission by the dedup guard comes before the processing and is
\* never taken back: no step that resumes or ends an invocation changes the
\* dedup stores, and when the processing of an admitted event has ended
\* without a delivered reply (deadline of the generation call, failure or
\* timeout of the delivery), a delivery of the same event within the 5
\* minutes of the TTL is dropped as a duplicate and not processed.
C27_AdmissionKept ==
  [][/\ ~DeliveryStep => UNCHANGED <<processedMessageIds, processedMessageKeys>>
     /\ \A e \in RetryEvents : Redelivery(e) => NotProcessed]_vars

\* C27 witness: the handling of the event of sender A ended at the deadline
\* of the generation call, with the user turn and no reply; later the
\* event was delivered again and dropped, and no invocation is suspended
C27_Witness ==
  /\ last.pc = "done" /\ last.path \in {"dup_id", "dup_key"}
  /\ last.msg.from = "A"
  /\ \A r \in Slots : ~InFlight(r)
  /\ pushCount["A"] = 1
  /\ delivered = 2
  /\ now > 1

\* the missing-slot list names the slot
Names(missing, slot) == \E i \in DOMAIN missing : missing[i] = slot

\* C28: contact_name is empty in every lead-state record (no operation
\* fills it); so the missing-slot list the handler computes is never empty
\* and always names contact_name, and the question the catch of callArliAI
\* takes from the table of the missing slots is never the generic one.
C28_ContactNameNeverFilled ==
  /\ \A f \in DOMAIN leadStateStore : Falsy(leadStateStore[f].contact_name)
  /\ \A q \in Invocations :
       Processed(q) => q.missing # <<>> /\ Names(q.missing, "contact_name")
  /\ \A q \in Invocations :
       q.path = "fallback" =>
         q.replyText = QuestionFor(q.missing[1]) /\ q.replyText # GenericQuestion

\* C28 witness: both utterances of sender A were taken, service and brand
\* name are filled, and the catch of callArliAI chose the question of an
\* invocation from its missing-slot list
C28_Witness ==
  /\ "A" \in DOMAIN leadStateStore
  /\ leadStateStore["A"].service = "logo" /\ leadStateStore["A"].brand_name = "Acme"
  /\ last.pc = "done" /\ last.path = "fallback"
  /\ Names(last.missing, "contact_name")
  /\ ~Names(last.missing, "service")

=============================================================================
